---- MODULE Spec2Model ----
(***************************************************************************)
(* The agent orchestration engine of MuchovhaOS (src/app/agent/loop.py)    *)
(* with the tool registry's dispatch (src/app/agent/tools.py) and the two  *)
(* callers of the loop in src/app/main.py: the /api/agent/run endpoint and *)
(* the health monitor's auto-heal callback.                                *)
(*                                                                         *)
(* AgentLoop.run is an async generator.  Between two of its suspension     *)
(* points (a yield of an event, the await of the model call, the await of  *)
(* a tool handler) it runs without interruption on the event loop; at a    *)
(* suspension point any other task may run: another run, a cancel request, *)
(* a session removal.  Each action below is one such uninterrupted piece.  *)
(***************************************************************************)
EXTENDS Naturals, Sequences, FiniteSets, TLC

(* ---------------------------------------------------------------- bounds *)

\* config.ai.max_agent_iterations ranges over 1..MaxIter
MaxIter == 2
\* the model backend emits at most MaxParts content parts in one behaviour
MaxParts == 2
\* config.ai.max_history_turns (20 in config.py) scaled down so trim happens
MaxHistoryTurns == 1
\* the monitor task takes at most MaxCycles readings
MaxCycles == 3
\* HealthMonitor.max_alerts (100 in monitor.py) scaled down so the cap applies
MaxAlerts == 3
\* the port scans the monitor task takes when the listeners are studied
MaxScans == 4
\* max_turns and summary_threshold of a ConversationHistory range over 1..MaxWindow
MaxWindow == 2
\* the messages appended to a ConversationHistory
MaxAppends == 4
\* the register calls made on a ToolRegistry
MaxRegs == 3

(* ------------------------------------------------------------- constants *)

\* loop.py:334  "if len(result_str) > 8000"
TruncLimit == 8000
\* len("\n... (truncated)")
MarkerLen == 16

\* the two callers of AgentLoop.run in main.py
Runs == {"auto", "user"}
\* session ids; "default" is AgentRequest's default and the auto-heal session
SessionIds == {"default"}
AutoHealSession == "default"

\* names a model may put in a function call; only "t1" is registered
Registered == {"t1"}
ToolNames == {"t1", "ghost"}

VARIABLES
    max_iter,     \* config.ai.max_agent_iterations, fixed for the process
    sessions,     \* AgentLoop._sessions: session id -> session object (0: absent)
    messages,     \* heap of Session objects: object id -> Session.messages
    cancelled,    \* AgentLoop._cancelled
    run,          \* per invocation of AgentLoop.run: its locals and its position
    emitted,      \* number of content parts the backend has produced so far
    monitor,      \* the HealthMonitor object and the position of its task
    history,      \* a ConversationHistory object of the chat service
    tools         \* a ToolRegistry object

\* the agent loop's part of the state
loopVars == <<max_iter, sessions, messages, cancelled, run, emitted>>
vars == <<max_iter, sessions, messages, cancelled, run, emitted, monitor, history, tools>>

(* ------------------------------------------------------ strings and JSON *)

\* A string is modelled by what the loop can observe of it: whether it parses
\* as a JSON object (fmt, key, body), its length, and whether it was cut.
NoStr == [fmt |-> "none", key |-> "", body |-> "", len |-> 0, cut |-> FALSE]

\* json.dumps({"error": msg}): 13 characters around the message
ErrorPayload(msg) ==
    [fmt |-> "json", key |-> "error", body |-> msg.body, len |-> msg.len + 13,
     cut |-> FALSE]

\* f"Unknown tool: {name}"
UnknownToolMsg == [fmt |-> "text", key |-> "", body |-> "Unknown tool", len |-> 19, cut |-> FALSE]

\* str(e) of what a handler may raise.  The message is a long one, so that
\* the error object outgrows the result cap; the short error object is the one
\* an unknown tool name gives.
ExceptionMsgs ==
    { [fmt |-> "text", key |-> "", body |-> "boom", len |-> TruncLimit, cut |-> FALSE] }

\* what a registered handler may return
HandlerOutputs ==
    { [fmt |-> "json", key |-> "data", body |-> "ok", len |-> 20, cut |-> FALSE],
      [fmt |-> "text", key |-> "", body |-> "big", len |-> TruncLimit + 1,
       cut |-> FALSE] }

\* a handler returns a string (str) or raises an exception with message str
HandlerOutcomes ==
    { [raised |-> FALSE, str |-> s] : s \in HandlerOutputs }
    \cup { [raised |-> TRUE, str |-> m] : m \in ExceptionMsgs }

\* mutant of Truncate: the long result is cut and gets no marker
TruncateNoMarker(s) ==
    IF s.len > TruncLimit
    THEN [s EXCEPT !.len = TruncLimit, !.cut = TRUE]
    ELSE s

\* result_str[:8000] + "\n... (truncated)"
Truncate(s) ==
    IF s.len > TruncLimit
    THEN [s EXCEPT !.len = TruncLimit + MarkerLen, !.cut = TRUE]
    ELSE s

\* json.loads: succeeds on an uncut JSON text, be it an object ("json") or
\* another JSON value ("value"), raises JSONDecodeError otherwise
JsonParses(s) == s.fmt \in {"json", "value"} /\ ~s.cut

\* try: json.loads(result_str)  except JSONDecodeError: {"output": result_str}
ResultData(s) ==
    IF JsonParses(s)
    THEN [key |-> s.key, val |-> s.body, raw |-> NoStr]
    ELSE [key |-> "output", val |-> "", raw |-> s]

(* --------------------------------------------------------- tool registry *)

\* mutant of Execute: an unknown tool is reported in plain words, not as JSON
ExecutePlainError(name, outcome) ==
    IF name \notin Registered
    THEN UnknownToolMsg
    ELSE IF outcome.raised
         THEN ErrorPayload(outcome.str)
         ELSE outcome.str

\* ToolRegistry.execute(name, arguments): never raises
Execute(name, outcome) ==
    IF name \notin Registered
    THEN ErrorPayload(UnknownToolMsg)
    ELSE IF outcome.raised
         THEN ErrorPayload(outcome.str)
         ELSE outcome.str

\* the names tools are registered under, and the names execute is called with
RegNames == {"t1", "t2"}
CallNames == RegNames \cup {"ghost"}

\* ToolRegistry.__init__: _tools is empty (0: no definition under the name);
\* regs, dispatched and result are not fields of the object: the names of the
\* register calls so far, each ToolDef being numbered by its call, then the
\* name and the definition the last execute dispatched to, and what it returned
NewRegistry ==
    [ defs |-> [name \in RegNames |-> 0], regs |-> <<>>,
      dispatched |-> [name |-> "", def |-> 0], result |-> NoStr ]

\* the registry main.py makes: the built-in tools registered once each
BuiltinRegistry ==
    [ NewRegistry EXCEPT !.defs = [name \in RegNames |-> IF name \in Registered THEN 1 ELSE 0] ]

\* mutant of RegisterDef: a name that has a definition keeps it
RegisterDefFirstWins(reg, name) ==
    [reg EXCEPT !.regs = Append(reg.regs, name),
                !.defs = IF reg.defs[name] # 0 THEN reg.defs
                         ELSE [reg.defs EXCEPT ![name] = Len(reg.regs) + 1]]

\* ToolRegistry.register: "self._tools[tool.name] = tool"
RegisterDef(reg, name) ==
    [reg EXCEPT !.regs = Append(reg.regs, name),
                !.defs = [reg.defs EXCEPT ![name] = Len(reg.regs) + 1]]

\* ToolRegistry.count
Count(reg) == Cardinality({ name \in RegNames : reg.defs[name] # 0 })

\* "tool = self._tools.get(name)": the definition under the name, or none
GetDef(reg, name) == IF name \in RegNames THEN reg.defs[name] ELSE 0

\* what the handler of the definition `def` returns: its own output, or the
\* outcome's exception
HandlerResult(def, outcome) ==
    IF outcome.raised THEN ErrorPayload(outcome.str)
    ELSE [outcome.str EXCEPT !.body = <<outcome.str.body, def>>]

\* ToolRegistry.execute on the registry `reg`
ExecuteIn(reg, name, outcome) ==
    LET def == GetDef(reg, name)
    IN  [reg EXCEPT !.dispatched = [name |-> name, def |-> def],
                    !.result = IF def = 0 THEN ErrorPayload(UnknownToolMsg)
                               ELSE HandlerResult(def, outcome)]

(* ------------------------------------------------------ turns and events *)

NoSig == <<>>

\* the content parts a model response can hold
PartShapes ==
    { [kind |-> "thought", name |-> "", text |-> "th", sig |-> NoSig],
      [kind |-> "text", name |-> "", text |-> "tx", sig |-> NoSig] }
    \cup { [kind |-> "call", name |-> n, text |-> "", sig |-> NoSig] : n \in ToolNames }

RECURSIVE SeqsUpTo(_, _)
SeqsUpTo(S, n) ==
    IF n = 0 THEN { <<>> }
    ELSE LET shorter == SeqsUpTo(S, n - 1)
         IN  shorter \cup { Append(s, x) : s \in { t \in shorter : Len(t) = n - 1 }, x \in S }

\* the backend attaches its continuation token to the function-call parts
Sign(parts, tok) ==
    [i \in 1..Len(parts) |->
        IF parts[i].kind = "call" THEN [parts[i] EXCEPT !.sig = tok] ELSE parts[i]]

\* genai_types.Content(role="user", parts=user_parts)
UserTurn(r) == [role |-> "user", kind |-> "goal", parts |-> <<>>, results |-> <<>>, by |-> r]
\* candidate.content, stored as the backend returned it
ModelTurn(r, parts) == [role |-> "model", kind |-> "model", parts |-> parts, results |-> <<>>, by |-> r]
\* Session.add_function_responses: one user turn holding every response
ResponseTurn(r, responses) ==
    [role |-> "user", kind |-> "function_response", parts |-> <<>>, results |-> responses, by |-> r]

\* sys_prefix, loop.py:246-255
SysPrefix ==
    << [role |-> "user", kind |-> "system", parts |-> <<>>, results |-> <<>>, by |-> "sys"],
       [role |-> "model", kind |-> "ready", parts |-> <<>>, results |-> <<>>, by |-> "sys"] >>

StoppedText == << "Agent stopped by user." >>
FallbackText == << "Reached maximum iterations." >>

\* "it" is the cycle that yielded the event (set by Emit), kept for the record
Ev(type, tool, text, result) ==
    [type |-> type, tool |-> tool, text |-> text, result |-> result, it |-> 0]
StatusEv == Ev("status", "", <<>>, NoStr)
ThoughtEv(texts) == Ev("thought", "", texts, NoStr)
ToolCallEv(name) == Ev("tool_call", name, <<>>, NoStr)
ToolResultEv(name, s) == Ev("tool_result", name, <<>>, s)
TextEv(texts) == Ev("text", "", texts, NoStr)
ErrorEv(text) == Ev("error", "", text, NoStr)
DoneEv == Ev("done", "", <<>>, NoStr)

(* ---------------------------------------------------------------- Session *)

\* Session.add_user_content / add_model_content / add_function_responses
AddTurn(msgs, turn) == Append(msgs, turn)

\* mutant of Trim: the oldest turns are kept instead of the newest
TrimKeepsOldest(msgs, max_turns) ==
    IF Len(msgs) > max_turns * 2
    THEN SubSeq(msgs, 1, max_turns * 2)
    ELSE msgs

\* mutant of Trim: one turn more than the window is kept
TrimOneMore(msgs, max_turns) ==
    IF Len(msgs) > max_turns * 2
    THEN SubSeq(msgs, Len(msgs) - max_turns * 2, Len(msgs))
    ELSE msgs

\* Session.trim(max_turns)
Trim(msgs, max_turns) ==
    IF Len(msgs) > max_turns * 2
    THEN SubSeq(msgs, Len(msgs) - max_turns * 2 + 1, Len(msgs))
    ELSE msgs

\* Session.to_contents()
ToContents(msgs) == msgs

(* --------------------------------------------------------- health monitor *)

\* HealthMonitor.__init__: the thresholds, in percent
cpu_warn == 15
cpu_crit == 50
mem_warn == 30
mem_crit == 70
disk_warn == 40
disk_crit == 80
\* "if len(zombies) > 3"
ZombieLimit == 3

\* the three threshold checks of _check_health, in the order they run
MetricChecks ==
    << [category |-> "cpu", warn |-> cpu_warn, crit |-> cpu_crit,
        crit_title |-> "CPU critically high", warn_title |-> "CPU high"],
       [category |-> "memory", warn |-> mem_warn, crit |-> mem_crit,
        crit_title |-> "Memory critically high", warn_title |-> "Memory high"],
       [category |-> "disk", warn |-> disk_warn, crit |-> disk_crit,
        crit_title |-> "Disk critically full", warn_title |-> "Disk space low"] >>

ZombieTitle == "Zombie processes detected"
\* f"New port {port} opened": one title per port
PortTitle(port) == <<"New port opened", port>>

\* the checks of one cycle: 1..3 the metrics, 4 the zombies, 5 the listeners
LastStage == 5

\* the ports a scan may find listening
Ports == {8080}

\* what the kernel reports in one cycle
Reading(cpu, mem, disk, zombies, ports) ==
    [cpu |-> cpu, memory |-> mem, disk |-> disk, zombies |-> zombies, ports |-> ports]
NoReading == Reading(0, 0, 0, 0, {})

\* the readings a cycle may get: all calm; one metric in its warning band
\* (memory and disk exactly at the threshold) or in its critical band; more
\* than three zombies and a listening port; two metrics critical at once
Readings ==
    { Reading(10, 29, 39, 0, {}),
      Reading(20, 29, 39, 0, {}),
      Reading(60, 29, 39, 0, {}),
      Reading(10, mem_warn, 39, 0, {}),
      Reading(10, mem_crit, 39, 0, {}),
      Reading(10, 29, disk_warn, 0, {}),
      Reading(10, 29, 39, ZombieLimit + 1, Ports),
      Reading(60, 29, disk_crit, ZombieLimit, {}) }

\* what the auto-heal callback may return: "\n".join of the run's text events
Responses == {"", "answer"}

\* HealthMonitor.__init__, and the task asleep before its first cycle
NewMonitor ==
    [ enabled |-> TRUE, auto_heal |-> FALSE, alerts |-> <<>>, alert_counter |-> 0,
      known_listeners |-> {}, initial_scan_done |-> FALSE,
      \* the task: asleep between two cycles, or awaiting the callback in the
      \* check `stage` for the alert `healing`; reading: the cycle's last reading
      pc |-> "sleep", stage |-> 0, reading |-> NoReading, healing |-> 0,
      \* history, not read by the code: the number of readings taken and the
      \* alerts the callback was invoked for
      cycles |-> 0, heals |-> <<>> ]

\* Alert(id=..., severity=..., category=..., title=..., detail=...)
Alert(id, severity, category, title) ==
    [ id |-> id, severity |-> severity, category |-> category, title |-> title,
      resolved |-> FALSE, auto_healed |-> FALSE, agent_response |-> "" ]

\* "not a.resolved and a.category == category and a.title == title"
Tracks(a, category, title) == ~a.resolved /\ a.category = category /\ a.title = title

\* the positions of the unresolved alerts for (category, title)
Tracking(alerts, category, title) ==
    { i \in 1..Len(alerts) : Tracks(alerts[i], category, title) }

\* mutant of Cap: the newest alerts are the ones that go
CapDropsNewest(alerts) ==
    IF Len(alerts) > MaxAlerts THEN SubSeq(alerts, 1, MaxAlerts) ELSE alerts

\* "self.alerts = self.alerts[-self.max_alerts:]"
Cap(alerts) ==
    IF Len(alerts) > MaxAlerts
    THEN SubSeq(alerts, Len(alerts) - MaxAlerts + 1, Len(alerts))
    ELSE alerts

\* mutant of AddAlert: no check for an alert that tracks the pair already
AddAlertNoDedup(m, severity, category, title) ==
    [m EXCEPT !.alert_counter = m.alert_counter + 1,
              !.alerts = Cap(Append(m.alerts,
                             Alert(m.alert_counter + 1, severity, category, title)))]

\* HealthMonitor._add_alert: the monitor afterwards
AddAlert(m, severity, category, title) ==
    IF Tracking(m.alerts, category, title) # {}
    THEN m
    ELSE [m EXCEPT !.alert_counter = m.alert_counter + 1,
                   !.alerts = Cap(Append(m.alerts,
                                  Alert(m.alert_counter + 1, severity, category, title)))]

\* HealthMonitor._add_alert: the id of the alert it returns
AddedAlert(m, category, title) ==
    IF Tracking(m.alerts, category, title) # {}
    THEN m.alerts[CHOOSE i \in Tracking(m.alerts, category, title) :
                     \A j \in Tracking(m.alerts, category, title) : i <= j].id
    ELSE m.alert_counter + 1

\* mutant of ResolveAlerts: only the first matching alert is resolved, and
\* only when it is the oldest alert of the list
ResolveOldestOnly(m, category, title) ==
    [m EXCEPT !.alerts = [i \in 1..Len(m.alerts) |->
        IF i = 1 /\ Tracks(m.alerts[i], category, title)
        THEN [m.alerts[i] EXCEPT !.resolved = TRUE] ELSE m.alerts[i]]]

\* HealthMonitor._resolve_alerts
ResolveAlerts(m, category, title) ==
    [m EXCEPT !.alerts = [i \in 1..Len(m.alerts) |->
        IF Tracks(m.alerts[i], category, title)
        THEN [m.alerts[i] EXCEPT !.resolved = TRUE] ELSE m.alerts[i]]]

\* the alert object with this id, wherever it is in the list
SetOnAlert(alerts, id, field, value) ==
    [i \in 1..Len(alerts) |->
        IF alerts[i].id = id THEN [alerts[i] EXCEPT ![field] = value] ELSE alerts[i]]

AlertById(alerts, id) == alerts[CHOOSE i \in 1..Len(alerts) : alerts[i].id = id]

\* HealthMonitor.get_active_alerts: the unresolved alerts as dicts, with
\* "healing_in_progress": a.auto_healed and not a.agent_response
RECURSIVE GetActiveAlerts(_)
GetActiveAlerts(alerts) ==
    IF alerts = <<>> THEN <<>>
    ELSE LET a == Head(alerts)
             rest == GetActiveAlerts(Tail(alerts))
         IN  IF a.resolved THEN rest
             ELSE << [ id |-> a.id, severity |-> a.severity, category |-> a.category,
                       title |-> a.title, auto_healed |-> a.auto_healed,
                       healing_in_progress |-> a.auto_healed /\ a.agent_response = "",
                       agent_response |-> a.agent_response ] >> \o rest

\* mutant of MaybeAutoHeal: the callback is invoked without the flag being set
MaybeAutoHealUnflagged(m, id, stage) ==
    IF ~m.auto_heal \/ AlertById(m.alerts, id).auto_healed
    THEN m
    ELSE [m EXCEPT !.pc = "healing", !.stage = stage, !.healing = id,
                   !.heals = Append(m.heals, id)]

\* HealthMonitor._maybe_auto_heal up to its await: nothing when auto-heal is
\* off or the alert was healed before; otherwise the flag is set and the
\* callback is invoked, the check `stage` waits for it
MaybeAutoHeal(m, id, stage) ==
    IF ~m.auto_heal \/ AlertById(m.alerts, id).auto_healed
    THEN m
    ELSE [m EXCEPT !.alerts = SetOnAlert(m.alerts, id, "auto_healed", TRUE),
                   !.pc = "healing", !.stage = stage, !.healing = id,
                   !.heals = Append(m.heals, id)]

\* one threshold check of _check_health
CheckMetric(m, stage) ==
    LET c == MetricChecks[stage]
        value == m.reading[c.category]
    IN  IF value >= c.crit
        THEN MaybeAutoHeal(AddAlert(m, "critical", c.category, c.crit_title),
                           AddedAlert(m, c.category, c.crit_title), stage)
        ELSE IF value >= c.warn
        THEN AddAlert(m, "warning", c.category, c.warn_title)
        ELSE ResolveAlerts(ResolveAlerts(m, c.category, c.crit_title),
                           c.category, c.warn_title)

\* mutant of CheckZombies: three defunct processes are enough
CheckZombiesAtLimit(m, stage) ==
    IF m.reading.zombies >= ZombieLimit
    THEN MaybeAutoHeal(AddAlert(m, "warning", "process", ZombieTitle),
                       AddedAlert(m, "process", ZombieTitle), stage)
    ELSE ResolveAlerts(m, "process", ZombieTitle)

\* the zombie process check
CheckZombies(m, stage) ==
    IF m.reading.zombies > ZombieLimit
    THEN MaybeAutoHeal(AddAlert(m, "warning", "process", ZombieTitle),
                       AddedAlert(m, "process", ZombieTitle), stage)
    ELSE ResolveAlerts(m, "process", ZombieTitle)

\* "for port in new_ports": an info alert per port, in any order
RECURSIVE AddPortAlerts(_, _)
AddPortAlerts(m, ports) ==
    IF ports = {} THEN m
    ELSE LET port == CHOOSE q \in ports : TRUE
         IN  AddPortAlerts(AddAlert(m, "info", "network", PortTitle(port)), ports \ {port})

\* mutant of CheckListeners: the first scan is compared with the empty
\* baseline like every other
CheckListenersNoBaseline(m) ==
    [ AddPortAlerts(m, m.reading.ports \ m.known_listeners)
      EXCEPT !.known_listeners = m.reading.ports, !.initial_scan_done = TRUE ]

\* the new listening port detection
CheckListeners(m) ==
    [ (IF m.initial_scan_done
       THEN AddPortAlerts(m, m.reading.ports \ m.known_listeners)
       ELSE m)
      EXCEPT !.known_listeners = m.reading.ports, !.initial_scan_done = TRUE ]

\* the check number `stage` of the cycle
CheckStage(m, stage) ==
    IF stage <= Len(MetricChecks) THEN CheckMetric(m, stage)
    ELSE IF stage < LastStage THEN CheckZombies(m, stage)
    ELSE CheckListeners(m)

\* _check_health from check `stage` on: check after check until one awaits
\* the callback or the cycle is complete and the task sleeps
RECURSIVE RunChecks(_, _)
RunChecks(m, stage) ==
    IF m.pc = "healing" THEN m
    ELSE IF stage > LastStage
    THEN [m EXCEPT !.pc = "sleep", !.stage = 0]
    ELSE RunChecks(CheckStage(m, stage), stage + 1)

\* the queries of _check_health, in the order they are made
Queries == <<"cpu", "memory", "disk", "zombies", "ports">>

\* mutant of CheckHealthFails: the query that raises counts as an empty
\* answer and the checks run
CheckHealthFailsAsEmpty(m, reading, failing) ==
    RunChecks([m EXCEPT !.pc = "checks",
                        !.reading = [reading EXCEPT ![Queries[failing]] =
                                        NoReading[Queries[failing]]]], 1)

\* _check_health when the query number `failing` raises: the five queries
\* come before the first check, so the exception leaves _check_health with
\* no check run; _run_loop logs it and sleeps
CheckHealthFails(m, reading, failing) == m

(* --------------------------------------------------- conversation history *)

\* _compress: "if len(text) > 200"
DigestLimit == 200

\* what add_user_message may be given: a short text, a short text with
\* terminal context, an attachment with no text; and what add_model_message
\* may be given: a reply longer than the digest limit
UserInputs ==
    { [len |-> 5, ctx |-> FALSE, media |-> 0],
      [len |-> 5, ctx |-> TRUE, media |-> 0],
      [len |-> 0, ctx |-> FALSE, media |-> 1] }
ModelTexts == { [len |-> 300, ctx |-> FALSE, media |-> 0] }

\* Message(role=..., text=..., attachments=...); timestamp: the messages are
\* numbered in the order they are created
Message(role, input, timestamp) ==
    [ role |-> role, text |-> [len |-> input.len, ctx |-> input.ctx],
      media |-> input.media, timestamp |-> timestamp ]

\* Message.to_api_format: one inline_data part per attachment, then the text
\* part unless the text is empty
ToApiFormat(msg) ==
    [ role |-> msg.role,
      parts |-> [i \in 1..msg.media |-> [kind |-> "inline_data", of |-> msg.timestamp]]
                \o (IF msg.text.len > 0
                    THEN << [kind |-> "text", of |-> msg.timestamp] >>
                    ELSE << >>) ]

\* "self._summary = None"
NoSummary == [exists |-> FALSE, text |-> <<>>, turn_count |-> 0]

\* the user/model exchange that to_api_contents puts first for a summary
SummaryExchange(summary) ==
    << [role |-> "user", parts |-> << [kind |-> "summary", of |-> summary.text] >>],
       [role |-> "model", parts |-> << [kind |-> "understood", of |-> <<>>] >>] >>

\* mutant of ToApiContents: the summary exchange comes after the messages
ToApiContentsSummaryLast(h) ==
    [i \in 1..Len(h.messages) |-> ToApiFormat(h.messages[i])]
    \o (IF h.summary.exists THEN SummaryExchange(h.summary) ELSE << >>)

\* ConversationHistory.to_api_contents: the list it returns
ToApiContents(h) ==
    (IF h.summary.exists THEN SummaryExchange(h.summary) ELSE << >>)
    \o [i \in 1..Len(h.messages) |-> ToApiFormat(h.messages[i])]

\* ConversationHistory._compress: one line per message, with its prefix, its
\* text cut when longer than the limit, the terminal context replaced by a
\* note and the attachments noted
Compress(msgs) ==
    [i \in 1..Len(msgs) |->
        [ prefix |-> IF msgs[i].role = "user" THEN "User" ELSE "Assistant",
          cut |-> msgs[i].text.len > DigestLimit,
          ctx_note |-> msgs[i].text.ctx,
          media_note |-> msgs[i].media > 0,
          of |-> msgs[i].timestamp ]]

\* ConversationHistory.__init__; appended, cleared_at and contents are not
\* fields of the object: every message appended so far, how many of them
\* were appended before the last clear(), and the list the last call of
\* to_api_contents returned to its caller
NewHistory(max_turns, summary_threshold) ==
    [ max_turns |-> max_turns, summary_threshold |-> summary_threshold,
      messages |-> <<>>, summary |-> NoSummary,
      appended |-> <<>>, cleared_at |-> 0, contents |-> <<>> ]

\* mutant of MaybeTrim: trims down to max_turns whenever it is exceeded
MaybeTrimToMaxTurns(h) ==
    IF Len(h.messages) <= h.max_turns THEN h
    ELSE LET overflow == Len(h.messages) - h.max_turns
             old_messages == SubSeq(h.messages, 1, overflow)
         IN  [h EXCEPT !.messages = SubSeq(h.messages, overflow + 1, Len(h.messages)),
                       !.summary = [exists |-> TRUE,
                                    text |-> h.summary.text \o Compress(old_messages),
                                    turn_count |-> h.summary.turn_count + Len(old_messages)]]

\* mutant of MaybeTrim: compacts as soon as the history is longer than
\* summary_threshold
MaybeTrimEager(h) ==
    LET overflow == Len(h.messages) - h.summary_threshold
        old_messages == SubSeq(h.messages, 1, overflow)
    IN  IF overflow <= 0 THEN h
        ELSE [h EXCEPT !.messages = SubSeq(h.messages, overflow + 1, Len(h.messages)),
                       !.summary = [exists |-> TRUE,
                                    text |-> h.summary.text \o Compress(old_messages),
                                    turn_count |-> h.summary.turn_count + Len(old_messages)]]

\* mutant of MaybeTrim: the new summary replaces the running one
MaybeTrimNewSummary(h) ==
    IF Len(h.messages) <= h.max_turns THEN h
    ELSE LET overflow == Len(h.messages) - h.summary_threshold
             old_messages == SubSeq(h.messages, 1, overflow)
         IN  IF overflow <= 0 THEN h
             ELSE [h EXCEPT !.messages = SubSeq(h.messages, overflow + 1, Len(h.messages)),
                            !.summary = [exists |-> TRUE,
                                         text |-> Compress(old_messages),
                                         turn_count |-> Len(old_messages)]]

\* ConversationHistory._maybe_trim
MaybeTrim(h) ==
    IF Len(h.messages) <= h.max_turns THEN h
    ELSE LET overflow == Len(h.messages) - h.summary_threshold
             old_messages == SubSeq(h.messages, 1, overflow)
         IN  IF overflow <= 0 THEN h
             ELSE [h EXCEPT !.messages = SubSeq(h.messages, overflow + 1, Len(h.messages)),
                            !.summary = [exists |-> TRUE,
                                         text |-> h.summary.text \o Compress(old_messages),
                                         turn_count |-> h.summary.turn_count + Len(old_messages)]]

\* "self._messages.append(msg); self._maybe_trim()"
AppendMessage(h, msg) ==
    MaybeTrim([h EXCEPT !.messages = Append(h.messages, msg),
                        !.appended = Append(h.appended, msg)])

(* -------------------------------------------------------------- the runs *)

IdleRun ==
    [ pc |-> "idle", sid |-> "", obj |-> 0, iterations |-> 0,
      parts |-> <<>>, idx |-> 0, has_tool_calls |-> FALSE,
      text_parts |-> <<>>, thought_parts |-> <<>>, function_responses |-> <<>>,
      \* history of the run, not read by the code
      events |-> <<>>, modelCalls |-> 0, execs |-> <<>>,
      outcome |-> "none", oneCallEach |-> TRUE, overlapped |-> FALSE ]

Init ==
    /\ max_iter \in 1..MaxIter
    /\ sessions = [s \in SessionIds |-> 0]
    /\ messages = <<>>
    /\ cancelled = {}
    /\ run = [r \in Runs |-> IdleRun]
    /\ emitted = 0
    /\ monitor = NewMonitor
    /\ history = NewHistory(1, 1)
    /\ tools = BuiltinRegistry

Stamp(evs, it) == [i \in 1..Len(evs) |-> [evs[i] EXCEPT !.it = it]]

\* "yield AgentEvent(...)", one after the other
Emit(rec, evs) == [rec EXCEPT !.events = rec.events \o Stamp(evs, rec.iterations)]

\* AgentLoop.cancel
Cancel(sid) ==
    /\ cancelled' = cancelled \cup {sid}
    /\ UNCHANGED <<tools, history, monitor, max_iter, sessions, messages, run, emitted>>

\* mutant of RemoveSession: the cancel request of the session is kept
RemoveSessionKeepsMark(sid) ==
    /\ sessions' = [sessions EXCEPT ![sid] = 0]
    /\ UNCHANGED <<tools, history, monitor, max_iter, messages, run, emitted, cancelled>>

\* AgentLoop.remove_session
RemoveSession(sid) ==
    /\ sessions' = [sessions EXCEPT ![sid] = 0]
    /\ cancelled' = cancelled \ {sid}
    /\ UNCHANGED <<tools, history, monitor, max_iter, messages, run, emitted>>

Active(r) == run[r].pc \notin {"idle", "done"}
\* another invocation of run is between its start and its end
Overlapping(r) == \E q \in Runs \ {r} : Active(q)

\* mutant of StartRun: a new run discards a cancel request left for its session
StartRunClearsCancel(r, sid) ==
    /\ run[r].pc = "idle"
    /\ r = "auto" => sid = AutoHealSession
    /\ LET fresh == sessions[sid] = 0
           obj == IF fresh THEN Len(messages) + 1 ELSE sessions[sid]
           old == IF fresh THEN <<>> ELSE messages[obj]
           new == Trim(AddTurn(old, UserTurn(r)), MaxHistoryTurns)
       IN  /\ sessions' = [sessions EXCEPT ![sid] = obj]
           /\ messages' = IF fresh THEN Append(messages, new)
                          ELSE [messages EXCEPT ![obj] = new]
           /\ run' = [q \in Runs |->
                        IF q = r
                        THEN Emit([IdleRun EXCEPT !.pc = "loop", !.sid = sid, !.obj = obj,
                                                   !.overlapped = Overlapping(r)],
                                  <<StatusEv>>)
                        ELSE IF Active(q) THEN [run[q] EXCEPT !.overlapped = TRUE]
                        ELSE run[q]]
    /\ emitted' = IF \E q \in Runs \ {r} : run[q].pc # "idle" THEN MaxParts ELSE emitted
    /\ cancelled' = cancelled \ {sid}
    /\ UNCHANGED <<tools, history, monitor, max_iter>>

\* AgentLoop.run up to its first yield: get_session, add_user_content, trim,
\* then the "thinking" status event.  The auto-heal callback always runs on
\* the session "default"; /api/agent/run runs on the session the request names.
\* Nothing keeps a run from starting while another is active.  To bound the
\* exploration the backend's part budget is for the first run of a behaviour:
\* once a second run starts, during the first or after it, the budget counts
\* as spent and the backend answers with empty candidates or fails.
StartRun(r, sid) ==
    /\ run[r].pc = "idle"
    /\ r = "auto" => sid = AutoHealSession
    /\ LET fresh == sessions[sid] = 0
           obj == IF fresh THEN Len(messages) + 1 ELSE sessions[sid]
           old == IF fresh THEN <<>> ELSE messages[obj]
           new == Trim(AddTurn(old, UserTurn(r)), MaxHistoryTurns)
       IN  /\ sessions' = [sessions EXCEPT ![sid] = obj]
           /\ messages' = IF fresh THEN Append(messages, new)
                          ELSE [messages EXCEPT ![obj] = new]
           /\ run' = [q \in Runs |->
                        IF q = r
                        THEN Emit([IdleRun EXCEPT !.pc = "loop", !.sid = sid, !.obj = obj,
                                                   !.overlapped = Overlapping(r)],
                                  <<StatusEv>>)
                        ELSE IF Active(q) THEN [run[q] EXCEPT !.overlapped = TRUE]
                        ELSE run[q]]
    /\ emitted' = IF \E q \in Runs \ {r} : run[q].pc # "idle" THEN MaxParts ELSE emitted
    /\ UNCHANGED <<tools, history, monitor, max_iter, cancelled>>

\* mutant of BudgetLeft: the while loop has no bound
BudgetUnbounded(me) == TRUE

\* mutant of BudgetLeft: the loop test off by one
BudgetLeftOffByOne(me) == me.iterations <= max_iter

\* "while iterations < max_iter"
BudgetLeft(me) == me.iterations < max_iter

\* mutant of CancelledAtA: the check at the head of the loop is missing
CancelledAtASkipped(me) == FALSE

\* "if session_id in self._cancelled" at the head of the while loop
CancelledAtA(me) == me.sid \in cancelled

\* mutant of CancelledAtB: the check before the dispatch is missing
CancelledAtBSkipped(me) == FALSE

\* "if session_id in self._cancelled" after the tool_call event
CancelledAtB(me) == me.sid \in cancelled

\* mutant of BackendFailure: the loop goes round again after the error event
BackendFailureRetries(me, why) ==
    Emit([me EXCEPT !.pc = "loop", !.outcome = "error"], <<ErrorEv(why)>>)

\* the run after a backend failure: one error event, then "return"
BackendFailure(me, why) ==
    Emit([me EXCEPT !.pc = "done", !.outcome = "error"], <<ErrorEv(why)>>)

\* "contents = sys_prefix + session.to_contents()": the request a run sends
Contents(me) == SysPrefix \o ToContents(messages[me.obj])

\* One pass of "while iterations < max_iter" up to the await of the model
\* call: the budget test, cancellation check A, iterations += 1, and the
\* request built from sys_prefix + session.to_contents().
LoopHead(r) ==
    /\ run[r].pc = "loop"
    /\ LET me == run[r] IN
       IF ~BudgetLeft(me)
       THEN /\ run' = [run EXCEPT ![r] =
                        Emit([me EXCEPT !.pc = "done", !.outcome = "fallback"],
                             <<TextEv(FallbackText), DoneEv>>)]
            /\ UNCHANGED cancelled
       ELSE IF CancelledAtA(me)
       THEN /\ cancelled' = cancelled \ {me.sid}
            /\ run' = [run EXCEPT ![r] =
                        Emit([me EXCEPT !.pc = "done", !.outcome = "cancelA"],
                             <<TextEv(StoppedText), DoneEv>>)]
       ELSE /\ run' = [run EXCEPT ![r] =
                        [me EXCEPT !.pc = "model",
                                   !.iterations = me.iterations + 1,
                                   !.modelCalls = me.modelCalls + 1]]
            /\ UNCHANGED cancelled
    /\ UNCHANGED <<tools, history, monitor, max_iter, sessions, messages, emitted>>

\* generate_content raises: "except Exception" yields one error event, returns
ModelRaises(r) ==
    /\ run[r].pc = "model"
    /\ run' = [run EXCEPT ![r] = BackendFailure(run[r], <<"exception">>)]
    /\ UNCHANGED <<tools, history, monitor, max_iter, sessions, messages, cancelled, emitted>>

\* "if not response.candidates": one error event, returns
ModelNoCandidates(r) ==
    /\ run[r].pc = "model"
    /\ run' = [run EXCEPT ![r] = BackendFailure(run[r], <<"No response from model">>)]
    /\ UNCHANGED <<tools, history, monitor, max_iter, sessions, messages, cancelled, emitted>>

NumCalls(parts) == Cardinality({ i \in 1..Len(parts) : parts[i].kind = "call" })

\* One turn of "for part in candidate.content.parts" (loop.py:306-351) up to
\* the yield of a tool_call event: a thought or a text part is collected; a
\* function call sets has_tool_calls and yields its tool_call event.
NextPart(me) ==
    LET part == me.parts[me.idx] IN
    IF part.kind = "thought" /\ part.text # ""
    THEN [me EXCEPT !.thought_parts = Append(@, part.text), !.idx = me.idx + 1]
    ELSE IF part.kind = "call"
    THEN Emit([me EXCEPT !.has_tool_calls = TRUE, !.pc = "checkB"],
              <<ToolCallEv(part.name)>>)
    ELSE IF part.text # ""
    THEN [me EXCEPT !.text_parts = Append(@, part.text), !.idx = me.idx + 1]
    ELSE [me EXCEPT !.idx = me.idx + 1]

\* mutant of ClosingEvents: the plain text is the answer whatever else the
\* response holds
ClosingEventsTextAlways(me) ==
    (IF me.thought_parts # <<>> THEN <<ThoughtEv(me.thought_parts)>> ELSE <<>>)
    \o (IF me.text_parts # <<>> \/ ~me.has_tool_calls
        THEN <<TextEv(me.text_parts), DoneEv>> ELSE <<>>)

\* The events a cycle yields after its last part (loop.py:353-372)
ClosingEvents(me) ==
    (IF me.thought_parts # <<>> THEN <<ThoughtEv(me.thought_parts)>> ELSE <<>>)
    \o (IF ~me.has_tool_calls THEN <<TextEv(me.text_parts), DoneEv>>
        ELSE IF me.text_parts # <<>> THEN <<ThoughtEv(me.text_parts)>> ELSE <<>>)

\* After the last part: the thought event, then either the final answer and
\* done, or the commentary event and the next pass of the while loop.
EndOfParts(me) ==
    Emit(IF me.has_tool_calls THEN [me EXCEPT !.pc = "loop"]
         ELSE [me EXCEPT !.pc = "done", !.outcome = "final"],
         ClosingEvents(me))

\* mutant of Flush: one history turn per function response
FlushSeparately(msgs, r, me) ==
    IF me.has_tool_calls /\ me.function_responses # <<>>
    THEN msgs \o [i \in 1..Len(me.function_responses) |->
                    ResponseTurn(r, <<me.function_responses[i]>>)]
    ELSE msgs

\* The history after a cycle's parts are processed (loop.py:366-368)
Flush(msgs, r, me) ==
    IF me.has_tool_calls /\ me.function_responses # <<>>
    THEN AddTurn(msgs, ResponseTurn(r, me.function_responses))
    ELSE msgs

\* The for loop runs on, part after part, until it yields a tool_call event
\* (pc "checkB") or runs out of parts (pc "parts" with idx past the end).
RECURSIVE Advance(_)
Advance(me) ==
    IF me.pc # "parts" \/ me.idx > Len(me.parts) THEN me ELSE Advance(NextPart(me))

\* The run resumes in the for loop with the locals `me`: it stops at the next
\* tool_call event, or leaves the for loop, flushes the batched function
\* responses to the session and closes the cycle.
Resume(r, me) ==
    LET at == Advance(me) IN
    IF at.pc = "parts"
    THEN /\ messages' = [messages EXCEPT ![at.obj] = Flush(@, r, at)]
         /\ run' = [run EXCEPT ![r] = EndOfParts(at)]
    ELSE /\ messages' = messages
         /\ run' = [run EXCEPT ![r] = at]

\* mutant of ModelResponds: the candidate's content is stored only once the
\* for loop over its parts has ended
ModelRespondsStoresLate(r, shapes) ==
    /\ run[r].pc = "model"
    /\ emitted + Len(shapes) <= MaxParts
    /\ LET me == run[r]
           parts == Sign(shapes, <<r, me.iterations>>)
           stored == [messages EXCEPT ![me.obj] = AddTurn(@, ModelTurn(r, parts))]
           at == Advance([me EXCEPT !.pc = "parts", !.parts = parts, !.idx = 1,
                                    !.has_tool_calls = FALSE,
                                    !.text_parts = <<>>, !.thought_parts = <<>>,
                                    !.function_responses = <<>>,
                                    !.oneCallEach = me.oneCallEach /\ NumCalls(parts) = 1])
       IN  IF at.pc = "parts"
           THEN /\ messages' = [stored EXCEPT ![at.obj] = Flush(@, r, at)]
                /\ run' = [run EXCEPT ![r] = EndOfParts(at)]
           ELSE /\ messages' = messages
                /\ run' = [run EXCEPT ![r] = at]
    /\ emitted' = emitted + Len(shapes)
    /\ UNCHANGED <<tools, history, monitor, max_iter, sessions, cancelled>>

\* The backend answers with a candidate: its content is stored in the session
\* as it came, the per-response locals are reset (loop.py:285-304) and the
\* for loop over the parts starts.
ModelResponds(r, shapes) ==
    /\ run[r].pc = "model"
    /\ emitted + Len(shapes) <= MaxParts
    /\ LET me == run[r]
           parts == Sign(shapes, <<r, me.iterations>>)
           stored == [messages EXCEPT ![me.obj] = AddTurn(@, ModelTurn(r, parts))]
           at == Advance([me EXCEPT !.pc = "parts", !.parts = parts, !.idx = 1,
                                    !.has_tool_calls = FALSE,
                                    !.text_parts = <<>>, !.thought_parts = <<>>,
                                    !.function_responses = <<>>,
                                    !.oneCallEach = me.oneCallEach /\ NumCalls(parts) = 1])
       IN  IF at.pc = "parts"
           THEN /\ messages' = [stored EXCEPT ![at.obj] = Flush(@, r, at)]
                /\ run' = [run EXCEPT ![r] = EndOfParts(at)]
           ELSE /\ messages' = stored
                /\ run' = [run EXCEPT ![r] = at]
    /\ emitted' = emitted + Len(shapes)
    /\ UNCHANGED <<tools, history, monitor, max_iter, sessions, cancelled>>

\* Cancellation check B, after the tool_call event and before the dispatch;
\* when not cancelled the run goes on to await self._tools.execute(...).
CheckB(r) ==
    /\ run[r].pc = "checkB"
    /\ LET me == run[r] IN
       IF CancelledAtB(me)
       THEN /\ cancelled' = cancelled \ {me.sid}
            /\ run' = [run EXCEPT ![r] =
                        Emit([me EXCEPT !.pc = "done", !.outcome = "cancelB"],
                             <<TextEv(StoppedText), DoneEv>>)]
       ELSE /\ run' = [run EXCEPT ![r] = [me EXCEPT !.pc = "tool"]]
            /\ UNCHANGED cancelled
    /\ UNCHANGED <<tools, history, monitor, max_iter, sessions, messages, emitted>>

\* mutant of Collect: a cancel request that arrived during the handler stops
\* the run as soon as the handler is back, the result is dropped
CollectPreempted(me, outcome) ==
    IF me.sid \in cancelled
    THEN Emit([me EXCEPT !.pc = "done", !.outcome = "cancelB"],
              <<TextEv(StoppedText), DoneEv>>)
    ELSE LET name == me.parts[me.idx].name
             result_str == Truncate(Execute(name, outcome))
         IN  Emit([me EXCEPT !.pc = "parts", !.idx = me.idx + 1,
                             !.function_responses =
                                 Append(@, [name |-> name, response |-> ResultData(result_str)]),
                             !.execs = Append(@, [iteration |-> me.iterations,
                                                  idx |-> me.idx, name |-> name,
                                                  raised |-> outcome.raised])],
                  <<ToolResultEv(name, result_str)>>)

\* The locals after "await self._tools.execute(...)" has returned: truncate,
\* yield the tool_result event, parse the result and collect it for the
\* batched history entry (loop.py:331-347).
Collect(me, outcome) ==
    LET name == me.parts[me.idx].name
        result_str == Truncate(Execute(name, outcome))
    IN  Emit([me EXCEPT !.pc = "parts", !.idx = me.idx + 1,
                        !.function_responses =
                            Append(@, [name |-> name, response |-> ResultData(result_str)]),
                        !.execs = Append(@, [iteration |-> me.iterations,
                                             idx |-> me.idx, name |-> name,
                                             raised |-> outcome.raised])],
             <<ToolResultEv(name, result_str)>>)

\* The tool dispatch returns and the for loop goes on.
ToolReturns(r, outcome) ==
    /\ run[r].pc = "tool"
    /\ run[r].parts[run[r].idx].name \notin Registered => ~outcome.raised
    /\ Resume(r, Collect(run[r], outcome))
    /\ UNCHANGED <<tools, history, monitor, max_iter, sessions, cancelled, emitted>>

Next ==
    \/ \E sid \in SessionIds : Cancel(sid)
    \/ \E sid \in SessionIds : RemoveSession(sid)
    \/ \E r \in Runs, sid \in SessionIds : StartRun(r, sid)
    \/ \E r \in Runs : LoopHead(r)
    \/ \E r \in Runs : ModelRaises(r)
    \/ \E r \in Runs : ModelNoCandidates(r)
    \/ \E r \in Runs, shapes \in SeqsUpTo(PartShapes, MaxParts) : ModelResponds(r, shapes)
    \/ \E r \in Runs : CheckB(r)
    \/ \E r \in Runs, outcome \in HandlerOutcomes : ToolReturns(r, outcome)

Spec == Init /\ [][Next]_vars

\* the await of generate_content ends: it raises or it returns a response
ModelReturns(r) ==
    \/ ModelRaises(r)
    \/ ModelNoCandidates(r)
    \/ \E shapes \in SeqsUpTo(PartShapes, MaxParts) : ModelResponds(r, shapes)

\* the await of self._tools.execute ends
HandlerReturns(r) == \E outcome \in HandlerOutcomes : ToolReturns(r, outcome)

\* a run goes on from where it is suspended: from the head of the while loop
\* or from check B, or because the model call or the handler it awaits returns
RunStep(r) == LoopHead(r) \/ CheckB(r) \/ ModelReturns(r) \/ HandlerReturns(r)

\* One invocation of run, by /api/agent/run, with cancel requests and session
\* removals arriving at any time.  What a run does next depends on its locals
\* and on the cancellation set only, so its termination is studied alone.
SoloNext ==
    \/ \E sid \in SessionIds : Cancel(sid)
    \/ \E sid \in SessionIds : RemoveSession(sid)
    \/ \E sid \in SessionIds : StartRun("user", sid)
    \/ RunStep("user")

\* The event loop resumes a run that can go on, every model call returns and
\* every handler returns.
SoloSpec == Init /\ [][SoloNext]_vars /\ WF_vars(RunStep("user"))

\* what earlier question-and-answer runs have left in a session: the last n
\* turns of goal, answer, goal, answer, ... (the older ones were trimmed)
PriorTurns(n) ==
    [i \in 1..n |->
        IF (n - i) % 2 = 0
        THEN ModelTurn("auto", <<[kind |-> "text", name |-> "", text |-> "tx", sig |-> NoSig]>>)
        ELSE UserTurn("auto")]

\* a session is new, or holds a full window, or a full window and the answer
\* of the last run
PriorLens == {0, 2 * MaxHistoryTurns, 2 * MaxHistoryTurns + 1}

\* the state in which a later run starts, no other run being active
LaterInit ==
    /\ max_iter \in 1..MaxIter
    /\ \E n \in PriorLens :
          /\ sessions = [s \in SessionIds |-> IF n = 0 THEN 0 ELSE 1]
          /\ messages = IF n = 0 THEN <<>> ELSE <<PriorTurns(n)>>
    /\ cancelled = {}
    /\ run = [r \in Runs |-> IdleRun]
    /\ emitted = 0
    /\ monitor = NewMonitor
    /\ history = NewHistory(1, 1)
    /\ tools = BuiltinRegistry

LaterNext ==
    \/ \E sid \in SessionIds : Cancel(sid)
    \/ \E sid \in SessionIds : StartRun("user", sid)
    \/ RunStep("user")

LaterSpec == LaterInit /\ [][LaterNext]_vars

\* more of what a handler may return: a JSON value that is not an object,
\* and a JSON object longer than the result cap
OtherOutputs ==
    { [fmt |-> "value", key |-> "", body |-> "42", len |-> 2, cut |-> FALSE],
      [fmt |-> "json", key |-> "data", body |-> "long", len |-> TruncLimit + 1,
       cut |-> FALSE] }

AnyOutcomes ==
    HandlerOutcomes \cup { [raised |-> FALSE, str |-> s] : s \in OtherOutputs }

\* one invocation of run whose handlers may return any of these strings
ResultNext ==
    \/ \E sid \in SessionIds : StartRun("user", sid)
    \/ LoopHead("user")
    \/ CheckB("user")
    \/ ModelReturns("user")
    \/ \E outcome \in AnyOutcomes : ToolReturns("user", outcome)

ResultSpec == Init /\ [][ResultNext]_vars

(* ------------------------------------------------- the monitor's actions *)

\* POST /api/monitor/toggle
ToggleEnabled ==
    /\ monitor' = [monitor EXCEPT !.enabled = ~monitor.enabled]
    /\ UNCHANGED <<loopVars, history, tools>>

\* POST /api/monitor/autoheal
ToggleAutoHeal ==
    /\ monitor' = [monitor EXCEPT !.auto_heal = ~monitor.auto_heal]
    /\ UNCHANGED <<loopVars, history, tools>>

\* HealthMonitor.dismiss_alert: the alert with this id, if any, is resolved
DismissAlert(id) ==
    /\ monitor' = [monitor EXCEPT !.alerts = SetOnAlert(monitor.alerts, id, "resolved", TRUE)]
    /\ UNCHANGED <<loopVars, history, tools>>

\* _run_loop with the monitor disabled: the task sleeps again
IdleCycle ==
    /\ monitor.pc = "sleep"
    /\ ~monitor.enabled
    /\ UNCHANGED vars

\* a metrics query raises: _run_loop logs it and the task sleeps again
CycleFails ==
    /\ monitor.pc = "sleep"
    /\ monitor.enabled
    /\ UNCHANGED vars

\* a cycle of _run_loop with the kernel's reading, up to its first await of
\* the callback or to its end
TakeReading(reading) ==
    /\ monitor.pc = "sleep"
    /\ monitor.enabled
    /\ monitor' = RunChecks([monitor EXCEPT !.pc = "checks", !.reading = reading,
                                            !.cycles = monitor.cycles + 1], 1)
    /\ UNCHANGED <<loopVars, history, tools>>

Cycle(reading) ==
    /\ monitor.cycles < MaxCycles
    /\ TakeReading(reading)

\* the callback returns: "alert.agent_response = response or ''", and the
\* cycle goes on with the next check
CallbackReturns(response) ==
    /\ monitor.pc = "healing"
    /\ monitor' = RunChecks([monitor EXCEPT
                               !.alerts = SetOnAlert(monitor.alerts, monitor.healing,
                                                     "agent_response", response),
                               !.pc = "checks", !.healing = 0],
                            monitor.stage + 1)
    /\ UNCHANGED <<loopVars, history, tools>>

\* mutant of CallbackRaises: the exception leaves _check_health, _run_loop
\* logs it and the task sleeps
CallbackRaisesEndsCycle ==
    /\ monitor.pc = "healing"
    /\ monitor' = [monitor EXCEPT !.pc = "sleep", !.stage = 0, !.healing = 0]
    /\ UNCHANGED <<loopVars, history, tools>>

\* the callback raises: logged, and the cycle goes on with the next check
CallbackRaises ==
    /\ monitor.pc = "healing"
    /\ monitor' = RunChecks([monitor EXCEPT !.pc = "checks", !.healing = 0],
                            monitor.stage + 1)
    /\ UNCHANGED <<loopVars, history, tools>>

\* the agent loop is not started: the callback is taken by what it returns
MonInit ==
    /\ max_iter = 1
    /\ sessions = [s \in SessionIds |-> 0]
    /\ messages = <<>>
    /\ cancelled = {}
    /\ run = [r \in Runs |-> IdleRun]
    /\ emitted = 0
    /\ monitor = NewMonitor
    /\ history = NewHistory(1, 1)
    /\ tools = BuiltinRegistry

MonNext ==
    \/ ToggleEnabled
    \/ ToggleAutoHeal
    \/ \E id \in 1..monitor.alert_counter : DismissAlert(id)
    \/ IdleCycle
    \/ CycleFails
    \/ \E reading \in Readings : Cycle(reading)
    \/ \E response \in Responses : CallbackReturns(response)
    \/ CallbackRaises

MonSpec == MonInit /\ [][MonNext]_vars

\* the readings of a CPU that stays at or above its critical threshold
PersistentReadings == { reading \in Readings : reading.cpu >= cpu_crit }

\* POST /api/monitor/autoheal switching auto-heal on
EnableAutoHeal ==
    /\ ~monitor.auto_heal
    /\ ToggleAutoHeal

\* POST /api/monitor/dismiss arriving while the task sleeps
DismissBetweenCycles(id) ==
    /\ monitor.pc = "sleep"
    /\ DismissAlert(id)

\* the monitor with auto-heal on and left on while the CPU stays critical
\* cycle after cycle; alerts are dismissed by hand between the cycles
StormNext ==
    \/ EnableAutoHeal
    \/ \E id \in 1..monitor.alert_counter : DismissBetweenCycles(id)
    \/ \E reading \in PersistentReadings : Cycle(reading)
    \/ \E response \in Responses : CallbackReturns(response)
    \/ CallbackRaises

StormSpec == MonInit /\ [][StormNext]_vars

\* CPU usage samples of four consecutive cycles
Scenario == <<10, 60, 60, 20>>

\* the cycle that takes the next sample of the scenario; memory, disk and
\* processes are calm, any port may be listening
ScenarioCycle(ports) ==
    /\ monitor.cycles < Len(Scenario)
    /\ TakeReading(Reading(Scenario[monitor.cycles + 1], 29, 39, 0, ports))

\* the monitor fed with the scenario, no alert dismissed by hand
ScenarioNext ==
    \/ ToggleEnabled
    \/ ToggleAutoHeal
    \/ IdleCycle
    \/ CycleFails
    \/ \E ports \in SUBSET Ports : ScenarioCycle(ports)
    \/ \E response \in Responses : CallbackReturns(response)
    \/ CallbackRaises

ScenarioSpec == MonInit /\ [][ScenarioNext]_vars

\* a cycle in which every metric is calm, any port may be listening and the
\* defunct processes are few or many
PortCycle(ports, zombies) ==
    /\ monitor.cycles < MaxScans
    /\ TakeReading(Reading(10, 29, 39, zombies, ports))

\* the monitor with the listening ports changing from scan to scan
PortNext ==
    \/ ToggleEnabled
    \/ ToggleAutoHeal
    \/ \E id \in 1..monitor.alert_counter : DismissAlert(id)
    \/ IdleCycle
    \/ CycleFails
    \/ \E ports \in SUBSET Ports, zombies \in {0, ZombieLimit, ZombieLimit + 1} :
          PortCycle(ports, zombies)
    \/ \E response \in Responses : CallbackReturns(response)
    \/ CallbackRaises

PortSpec == MonInit /\ [][PortNext]_vars

\* the readings of the cycles when failing queries are studied: all calm, or
\* the CPU critical with many defunct processes and a listening port
FailReadings ==
    { Reading(10, 29, 39, 0, {}),
      Reading(60, 29, 39, ZombieLimit + 1, Ports) }

\* a cycle of _run_loop in which a metrics query raises, counted as a cycle
QueryRaises(reading, failing) ==
    /\ monitor.cycles < MaxCycles
    /\ monitor.pc = "sleep"
    /\ monitor.enabled
    /\ monitor' = [CheckHealthFails(monitor, reading, failing)
                     EXCEPT !.cycles = monitor.cycles + 1]
    /\ UNCHANGED <<loopVars, history, tools>>

\* a cycle in which every query answers
FailCycle(reading) ==
    /\ monitor.cycles < MaxCycles
    /\ TakeReading(reading)

\* the monitor with cycles that fail and cycles that do not
FailNext ==
    \/ ToggleEnabled
    \/ ToggleAutoHeal
    \/ \E id \in 1..monitor.alert_counter : DismissAlert(id)
    \/ IdleCycle
    \/ \E reading \in FailReadings : FailCycle(reading)
    \/ \E reading \in FailReadings, failing \in 1..Len(Queries) : QueryRaises(reading, failing)
    \/ \E response \in Responses : CallbackReturns(response)
    \/ CallbackRaises

FailSpec == MonInit /\ [][FailNext]_vars

(* ------------------------------------------ the conversation's operations *)

\* ConversationHistory.add_user_message
AddUserMessage(input) ==
    /\ Len(history.appended) < MaxAppends
    /\ history' = AppendMessage(history, Message("user", input, Len(history.appended) + 1))
    /\ UNCHANGED <<loopVars, monitor, tools>>

\* ConversationHistory.add_model_message
AddModelMessage(text) ==
    /\ Len(history.appended) < MaxAppends
    /\ history' = AppendMessage(history, Message("model", text, Len(history.appended) + 1))
    /\ UNCHANGED <<loopVars, monitor, tools>>

\* a caller builds the request: contents.extend(history.to_api_contents())
BuildContents ==
    /\ history' = [history EXCEPT !.contents = ToApiContents(history)]
    /\ UNCHANGED <<loopVars, monitor, tools>>

\* mutant of ClearHistory: the summary survives
ClearKeepsSummary ==
    /\ history' = [history EXCEPT !.messages = <<>>,
                                  !.cleared_at = Len(history.appended)]
    /\ UNCHANGED <<loopVars, monitor, tools>>

\* ConversationHistory.clear
ClearHistory ==
    /\ history' = [history EXCEPT !.messages = <<>>, !.summary = NoSummary,
                                  !.cleared_at = Len(history.appended)]
    /\ UNCHANGED <<loopVars, monitor, tools>>

\* a ConversationHistory made with any max_turns and summary_threshold; the
\* agent loop and the monitor are not started
HistInit ==
    /\ max_iter = 1
    /\ sessions = [s \in SessionIds |-> 0]
    /\ messages = <<>>
    /\ cancelled = {}
    /\ run = [r \in Runs |-> IdleRun]
    /\ emitted = 0
    /\ monitor = NewMonitor
    /\ \E max_turns \in 1..MaxWindow, summary_threshold \in 1..MaxWindow :
          history = NewHistory(max_turns, summary_threshold)
    /\ tools = BuiltinRegistry

HistNext ==
    \/ \E input \in UserInputs : AddUserMessage(input)
    \/ \E text \in ModelTexts : AddModelMessage(text)
    \/ BuildContents
    \/ ClearHistory

HistSpec == HistInit /\ [][HistNext]_vars

(* ------------------------------------------- the registry's operations *)

\* ToolRegistry.register(tool), tool.name being `name`
Register(name) ==
    /\ Len(tools.regs) < MaxRegs
    /\ tools' = RegisterDef(tools, name)
    /\ UNCHANGED <<loopVars, monitor, history>>

\* ToolRegistry.execute(name, arguments), the handler returning or raising
ExecuteTool(name, outcome) ==
    /\ tools' = ExecuteIn(tools, name, outcome)
    /\ UNCHANGED <<loopVars, monitor, history>>

\* a new registry; the agent loop, the monitor and the chat are not started
RegInit ==
    /\ max_iter = 1
    /\ sessions = [s \in SessionIds |-> 0]
    /\ messages = <<>>
    /\ cancelled = {}
    /\ run = [r \in Runs |-> IdleRun]
    /\ emitted = 0
    /\ monitor = NewMonitor
    /\ history = NewHistory(1, 1)
    /\ tools = NewRegistry

RegNext ==
    \/ \E name \in RegNames : Register(name)
    \/ \E name \in CallNames, outcome \in HandlerOutcomes : ExecuteTool(name, outcome)

RegSpec == RegInit /\ [][RegNext]_vars

(* ================================================================ claims *)

CountEv(evs, type) == Cardinality({ i \in 1..Len(evs) : evs[i].type = type })
IsCall(p) == p.kind = "call"
CallParts(parts) == SelectSeq(parts, IsCall)
\* run r takes a step of its own
Steps(r) == run'[r].pc # run[r].pc
StoppedEvents(me) == Stamp(<<TextEv(StoppedText), DoneEv>>, me.iterations)

\* C1: a run whose every response held one tool call, and which was neither
\* cancelled nor hit by a backend failure, ends after exactly max_iter model
\* calls and max_iter tool_call events with the fallback text and done; no
\* run ever makes more than max_iter model calls.
C1_IterationBudget ==
    \A r \in Runs :
      LET me == run[r]
          n == Len(me.events)
      IN  /\ me.modelCalls <= max_iter
          /\ (me.pc = "done" /\ me.oneCallEach
                /\ me.outcome \notin {"cancelA", "cancelB", "error"})
              => /\ me.outcome = "fallback"
                 /\ me.modelCalls = max_iter
                 /\ CountEv(me.events, "tool_call") = max_iter
                 /\ n >= 2
                 /\ me.events[n - 1].type = "text"
                 /\ me.events[n - 1].text = FallbackText
                 /\ me.events[n].type = "done"

C1_Witness ==
    \E r \in Runs :
        /\ run[r].pc = "done" /\ run[r].outcome = "fallback"
        /\ run[r].oneCallEach /\ run[r].modelCalls = 2
        /\ CountEv(run[r].events, "tool_call") = 2

\* C2: a run that begins an iteration (budget left) with its session in the
\* cancellation set removes the mark, emits the stopped text and done, and
\* ends; that step makes no model call, runs no tool, appends no turn.
C2_CheckA ==
    [][\A r \in Runs :
        (run[r].pc = "loop" /\ run[r].iterations < max_iter
            /\ run[r].sid \in cancelled /\ Steps(r))
        => /\ cancelled' = cancelled \ {run[r].sid}
           /\ run'[r].pc = "done"
           /\ run'[r].events = run[r].events \o StoppedEvents(run[r])
           /\ run'[r].modelCalls = run[r].modelCalls
           /\ run'[r].execs = run[r].execs
           /\ messages' = messages]_vars

C2_Witness ==
    \E r \in Runs :
        /\ run[r].outcome = "cancelA" /\ run[r].modelCalls = 1
        /\ run[r].sid \notin cancelled

\* C3: a run that reaches the check before a dispatch with its session in the
\* cancellation set clears the mark and ends with the stopped text and done;
\* the pending call and every later call of the response is never dispatched
\* and gets no tool_result event: an ended run takes no further step.
C3_CheckB ==
    [][\A r \in Runs :
        /\ (run[r].pc = "checkB" /\ run[r].sid \in cancelled /\ Steps(r))
           => /\ cancelled' = cancelled \ {run[r].sid}
              /\ run'[r].pc = "done"
              /\ run'[r].events = run[r].events \o StoppedEvents(run[r])
              /\ run'[r].execs = run[r].execs
              /\ messages' = messages
        /\ (run[r].pc = "done" => run'[r] = run[r])]_vars

C3_Witness ==
    \E r \in Runs :
        /\ run[r].outcome = "cancelB" /\ run[r].idx = 2
        /\ Len(run[r].execs) = 1
        /\ CountEv(run[r].events, "tool_call") = 2
        /\ CountEv(run[r].events, "tool_result") = 1

\* C4: when the dispatch of a response with K tool calls completes, exactly
\* one turn is appended to the run's session: a function-response turn with
\* K entries, named after the calls in the order the model issued them.
C4_BatchedResults ==
    [][\A r \in Runs :
        (run[r].pc = "tool" /\ run'[r].pc = "loop")
        => LET old == messages[run[r].obj]
               new == messages'[run[r].obj]
               calls == CallParts(run[r].parts)
           IN  /\ Len(calls) >= 1
               /\ Len(new) = Len(old) + 1
               /\ SubSeq(new, 1, Len(old)) = old
               /\ new[Len(new)].kind = "function_response"
               /\ Len(new[Len(new)].results) = Len(calls)
               /\ \A i \in 1..Len(calls) :
                     new[Len(new)].results[i].name = calls[i].name]_vars

C4_Witness ==
    \E r \in Runs :
      LET msgs == messages[run[r].obj] IN
        /\ run[r].pc = "loop" /\ run[r].iterations = 1
        /\ Len(CallParts(run[r].parts)) = 2
        /\ msgs[Len(msgs)].kind = "function_response"
        /\ Len(msgs[Len(msgs)].results) = 2
        /\ msgs[Len(msgs)].results[1].name # msgs[Len(msgs)].results[2].name


\* a model turn with K > 0 tool calls is followed at once by a
\* function-response turn with K entries
WellPaired(turns) ==
    \A i \in 1..Len(turns) :
        (turns[i].kind = "model" /\ NumCalls(turns[i].parts) > 0)
        => /\ i < Len(turns)
           /\ turns[i + 1].kind = "function_response"
           /\ Len(turns[i + 1].results) = NumCalls(turns[i].parts)

\* C5: in the turn sequence a run has submitted to the backend, every model
\* turn with K tool calls is followed at once by one function-response turn
\* with K entries.  Stated for the runs that never overlapped another run:
\* between submission and answer the session of such a run is unchanged.
C5_PairedRequests ==
    \A r \in Runs :
        (run[r].pc = "model" /\ ~run[r].overlapped) => WellPaired(Contents(run[r]))

\* C6: within one cycle the thought event made of the response's thinking
\* parts comes before every tool_call and tool_result event of that cycle,
\* and every tool_result event directly follows the tool_call event of its call.
C6_ThoughtFirst ==
    \A r \in Runs :
      LET evs == run[r].events IN
        /\ \A i, j \in 1..Len(evs) :
              (evs[i].type = "thought" /\ evs[i].text[1] = "th"
                 /\ evs[j].type \in {"tool_call", "tool_result"}
                 /\ evs[i].it = evs[j].it)
              => i < j
        /\ \A j \in 1..Len(evs) :
              evs[j].type = "tool_result"
              => j > 1 /\ evs[j - 1].type = "tool_call" /\ evs[j - 1].tool = evs[j].tool

\* C7: no two invocations of the loop are active on the same session id at
\* the same time.
C7_NoOverlap ==
    \A r, q \in Runs :
        (r # q /\ Active(r) /\ Active(q)) => run[r].sid # run[q].sid

\* C8: after a backend failure (the model call raises or returns no
\* candidates) the run has ended with exactly one error event, which is its
\* last event; it has emitted no text and no done event, and it takes no
\* further step: no model call, no tool.
C8_BackendFailureTerminal ==
    /\ [](\A r \in Runs :
            LET me == run[r] IN
            (me.outcome = "error" \/ CountEv(me.events, "error") > 0)
            => /\ me.pc = "done" /\ me.outcome = "error"
               /\ CountEv(me.events, "error") = 1
               /\ me.events[Len(me.events)].type = "error"
               /\ CountEv(me.events, "text") = 0
               /\ CountEv(me.events, "done") = 0
               /\ me.modelCalls = me.iterations)
    /\ [][\A r \in Runs : run[r].outcome = "error" => run'[r] = run[r]]_vars

C8_Witness ==
    \E r \in Runs :
        /\ run[r].outcome = "error" /\ run[r].modelCalls = 2
        /\ Len(run[r].execs) = 1
        /\ run[r].events[Len(run[r].events)].text = <<"No response from model">>

\* C9: the dispatch of a call that names an unknown tool, or whose handler
\* raises, returns to the loop with a JSON error object; the loop emits it
\* (cut to the result cap like any result) as the call's tool_result event,
\* records what it emitted as the call's entry among the function responses
\* (flushed to the session when the response is done), and the run goes on to
\* the next call or the next model call instead of ending.
C9_ToolFailureAbsorbed ==
    [][\A r \in Runs :
        (run[r].pc = "tool" /\ Steps(r))
        => LET me == run[r]
               after == run'[r]
               e == after.execs[Len(after.execs)]
               ev == after.events[Len(me.events) + 1]
               msgs == messages'[me.obj]
               entry == IF after.pc = "loop"
                        THEN msgs[Len(msgs)].results[Len(msgs[Len(msgs)].results)]
                        ELSE after.function_responses[Len(after.function_responses)]
           IN  /\ Len(after.execs) = Len(me.execs) + 1
               /\ e.name = me.parts[me.idx].name
               /\ (e.name \notin Registered \/ e.raised)
                  => /\ ev.type = "tool_result" /\ ev.tool = e.name
                     /\ ev.result.fmt = "json" /\ ev.result.key = "error"
                     /\ ev.result.len <= TruncLimit + MarkerLen
                     /\ after.pc \in {"checkB", "loop"}
                     /\ after.outcome = "none"
                     /\ entry.name = e.name
                     /\ entry.response = ResultData(ev.result)
                     /\ (~ev.result.cut =>
                            /\ entry.response.key = "error"
                            /\ entry.response.val = ev.result.body)]_vars

C9_Witness ==
    \E r \in Runs :
        /\ run[r].pc = "model" /\ run[r].modelCalls = 2
        /\ Len(run[r].execs) = 2
        /\ run[r].execs[1].name = "ghost"
        /\ run[r].execs[2].raised

\* C10: a stored turn is never modified.  In every step each session keeps
\* its turns unchanged and in order; only the start of a run may drop turns,
\* and then exactly the oldest ones that exceed 2 * max_history_turns.  The
\* turn stored for a response is the candidate as the backend returned it,
\* with its token on every function-call part.
C10_TurnsPreserved ==
    [][/\ \A o \in DOMAIN messages :
            LET old == messages[o]
                new == messages'[o]
                starting == \E r \in Runs : run[r].pc = "idle" /\ run'[r].pc # "idle"
                                            /\ run'[r].obj = o
                d == IF starting /\ Len(old) + 1 > 2 * MaxHistoryTurns
                     THEN Len(old) + 1 - 2 * MaxHistoryTurns ELSE 0
            IN  /\ Len(new) >= Len(old) - d
                /\ \A i \in (d + 1)..Len(old) : new[i - d] = old[i]
       /\ \A r \in Runs :
            (run[r].pc = "model" /\ Steps(r) /\ run'[r].outcome # "error")
            => LET old == messages[run[r].obj]
                   new == messages'[run[r].obj]
                   turn == new[Len(old) + 1]
               IN  /\ Len(new) > Len(old)
                   /\ turn.kind = "model"
                   /\ turn.parts = run'[r].parts
                   /\ \A i \in 1..Len(turn.parts) :
                        turn.parts[i].kind = "call"
                        => turn.parts[i].sig = <<r, run[r].iterations>>]_vars

C10_Witness ==
    \E o \in DOMAIN messages :
        /\ Len(messages[o]) = 2
        /\ messages[o][1].kind = "model"
        /\ NumCalls(messages[o][1].parts) > 0
        /\ messages[o][1].parts[1].sig # NoSig
        /\ messages[o][2].kind = "goal"
        /\ messages[o][2].by # messages[o][1].by

\* the events of cycle `it` that show a response's content
CycleEvents(evs, it) ==
    { i \in 1..Len(evs) : evs[i].it = it
                          /\ evs[i].type \in {"thought", "tool_call", "tool_result", "text"} }

\* C11: the step in which a run receives a candidate appends the model's turn,
\* as returned, to the run's session; before that step the run has emitted no
\* thought, tool_call, tool_result or text event of the cycle and has run no
\* handler of it.  The step that stops the run at cancellation check B leaves
\* every session as it is, and the turn is still in the run's session.
C11_TurnStoredFirst ==
    [][\A r \in Runs :
        LET me == run[r]
            old == messages[me.obj]
            new == messages'[me.obj]
        IN  /\ (me.pc = "model" /\ Steps(r) /\ run'[r].outcome # "error")
               => /\ Len(new) > Len(old)
                  /\ \A i \in 1..Len(old) : new[i] = old[i]
                  /\ new[Len(old) + 1] = ModelTurn(r, run'[r].parts)
                  /\ CycleEvents(me.events, me.iterations) = {}
                  /\ \A i \in 1..Len(me.execs) : me.execs[i].iteration # me.iterations
            /\ (me.pc = "checkB" /\ run'[r].outcome = "cancelB")
               => /\ messages' = messages
                  /\ \E i \in 1..Len(old) : old[i] = ModelTurn(r, me.parts)
                  /\ ~me.overlapped => old[Len(old)] = ModelTurn(r, me.parts)]_vars

C11_Witness ==
    \E r \in Runs :
        /\ run[r].outcome = "cancelB"
        /\ Len(run[r].execs) = 1
        /\ ~run[r].overlapped
        /\ LET msgs == messages[run[r].obj]
           IN  /\ msgs # <<>>
               /\ msgs[Len(msgs)] = ModelTurn(r, run[r].parts)
               /\ NumCalls(run[r].parts) = 2

IsText(p) == p.kind = "text"
\* the plain text of a response, part by part
TextsOf(parts) == [i \in 1..Len(SelectSeq(parts, IsText)) |-> SelectSeq(parts, IsText)[i].text]
\* the events a step of run r adds
NewEvents(r) == SubSeq(run'[r].events, Len(run[r].events) + 1, Len(run'[r].events))

\* C12: the step that finishes the processing of a response ends the run
\* with the response's plain text as a text event followed by done exactly
\* when the response holds no tool call; when it holds a tool call the step
\* emits no text and no done event, emits the plain text (if any) as a
\* thought event, and leaves the run at the head of the next cycle.
C12_TextClassification ==
    [][\A r \in Runs :
        LET me == run[r]
            after == run'[r]
            new == NewEvents(r)
            n == Len(new)
            texts == TextsOf(after.parts)
            closes == /\ me.pc \in {"model", "tool"} /\ Steps(r)
                      /\ after.pc = "loop" \/ (after.pc = "done" /\ after.outcome = "final")
        IN  closes =>
            IF NumCalls(after.parts) = 0
            THEN /\ after.pc = "done" /\ after.outcome = "final"
                 /\ n >= 2
                 /\ new[n - 1] = [TextEv(texts) EXCEPT !.it = me.iterations]
                 /\ new[n] = [DoneEv EXCEPT !.it = me.iterations]
                 /\ \A i \in 1..n : new[i].type = "thought" => new[i].text # texts \/ texts = <<>>
            ELSE /\ after.pc = "loop" /\ after.outcome = "none"
                 /\ \A i \in 1..n : new[i].type \notin {"text", "done"}
                 /\ IF texts # <<>>
                    THEN n >= 1 /\ new[n] = [ThoughtEv(texts) EXCEPT !.it = me.iterations]
                    ELSE \A i \in 1..n : new[i].type = "thought" => new[i].text[1] = "th"]_vars

\* a response with a tool call and plain text has been processed, and a later
\* response without tool call has ended the run
C12_Witness ==
    \E r \in Runs :
        LET evs == run[r].events IN
        /\ run[r].outcome = "final" /\ run[r].modelCalls = 2
        /\ \E i \in 1..Len(evs) : evs[i].type = "thought" /\ evs[i].text = <<"tx">> /\ evs[i].it = 1
        /\ evs[Len(evs) - 1].type = "text"

\* C13: while a handler is in flight a cancel request changes nothing of the
\* run; when the handler returns with the request pending, the run records
\* the dispatch and emits the call's tool_result event, the request stays
\* pending, and the run goes on to the next checkpoint: the check before the
\* next dispatch of the response or the head of the while loop.  A run is
\* stopped by cancellation only at one of these two checkpoints.
C13_NotPreemptive ==
    [][\A r \in Runs :
        LET me == run[r]
            after == run'[r]
            new == NewEvents(r)
        IN  /\ (me.pc = "tool" /\ cancelled' # cancelled) => after = me
            /\ (me.pc = "tool" /\ me.sid \in cancelled /\ Steps(r))
               => /\ Len(after.execs) = Len(me.execs) + 1
                  /\ new # <<>>
                  /\ new[1].type = "tool_result"
                  /\ new[1].tool = me.parts[me.idx].name
                  /\ \A i \in 1..Len(new) : new[i].type \notin {"text", "done"}
                  /\ me.sid \in cancelled'
                  /\ after.pc \in {"checkB", "loop"}
                  /\ after.outcome = "none"
            /\ (Steps(r) /\ after.outcome \in {"cancelA", "cancelB"})
               => /\ me.pc = (IF after.outcome = "cancelA" THEN "loop" ELSE "checkB")
                  /\ me.sid \in cancelled]_vars

\* a handler has returned with a cancel request pending: its result is out,
\* and the run stands at the check before the next dispatch
C13_Witness ==
    \E r \in Runs :
        LET evs == run[r].events IN
        /\ run[r].pc = "checkB" /\ run[r].sid \in cancelled
        /\ Len(run[r].execs) = 1
        /\ Len(evs) >= 2
        /\ evs[Len(evs) - 1].type = "tool_result"
        /\ evs[Len(evs)].type = "tool_call"

\* C14: a run makes at most max_iter model calls; when it has ended its last
\* event is done or error; and when every model call and every handler
\* returns, a run that has started ends.
C14_Terminates ==
    /\ [](\A r \in Runs :
            /\ run[r].modelCalls <= max_iter
            /\ run[r].pc = "done"
               => run[r].events[Len(run[r].events)].type \in {"done", "error"})
    /\ (run["user"].pc # "idle") ~> (run["user"].pc = "done")

\* a run has ended after max_iter cycles of tool calls
C14_Witness ==
    \E r \in Runs :
        /\ run[r].pc = "done" /\ run[r].modelCalls = max_iter /\ max_iter = MaxIter
        /\ Len(run[r].execs) = MaxIter
        /\ run[r].events[Len(run[r].events)].type = "done"

\* the positions of the alerts of a category with a severity
AlertsOf(category, severity) ==
    { i \in 1..Len(monitor.alerts) :
        monitor.alerts[i].category = category /\ monitor.alerts[i].severity = severity }

\* C15: the monitor fed the CPU samples 10, 60, 60, 20 (warn 15, crit 50)
\* has no critical CPU alert after the first sample, exactly one, unresolved,
\* from the second sample on, still exactly one after the third, and that one
\* resolved once the cycle of the fourth sample is complete.
C15_Hysteresis ==
    LET critical == AlertsOf("cpu", "critical")
        n == monitor.cycles
    IN  /\ n <= 1 => critical = {}
        /\ n >= 2 => Cardinality(critical) = 1
        /\ n \in {2, 3} => \A i \in critical : ~monitor.alerts[i].resolved
        /\ (n = 4 /\ monitor.pc = "sleep") => \A i \in critical : monitor.alerts[i].resolved

\* the (category, title) pairs _check_health raises alerts for
AlertPairs ==
    { <<MetricChecks[k].category, MetricChecks[k].crit_title>> : k \in 1..Len(MetricChecks) }
    \cup { <<MetricChecks[k].category, MetricChecks[k].warn_title>> : k \in 1..Len(MetricChecks) }
    \cup { <<"process", ZombieTitle>> }
    \cup { <<"network", PortTitle(port)>> : port \in Ports }

\* C16: no two unresolved alerts of the list have the same (category, title);
\* and for a pair that has an unresolved alert, _add_alert leaves the monitor
\* as it is and returns that alert.
C16_Dedup ==
    /\ \A i, j \in 1..Len(monitor.alerts) :
          (i < j /\ ~monitor.alerts[i].resolved /\ ~monitor.alerts[j].resolved)
          => <<monitor.alerts[i].category, monitor.alerts[i].title>>
               # <<monitor.alerts[j].category, monitor.alerts[j].title>>
    /\ \A pair \in AlertPairs, severity \in {"info", "warning", "critical"} :
          Tracking(monitor.alerts, pair[1], pair[2]) # {}
          => /\ AddAlert(monitor, severity, pair[1], pair[2]) = monitor
             /\ \E i \in Tracking(monitor.alerts, pair[1], pair[2]) :
                   monitor.alerts[i].id = AddedAlert(monitor, pair[1], pair[2])

\* the CPU went to the warning band, then to the critical band, and back to
\* the warning band: the last cycle found the warning alert already there
C16_Witness ==
    /\ monitor.pc = "sleep" /\ monitor.reading.cpu = 20
    /\ Len(monitor.alerts) = 2 /\ monitor.alert_counter = 2
    /\ Tracks(monitor.alerts[1], "cpu", "CPU high")
    /\ Tracks(monitor.alerts[2], "cpu", "CPU critically high")

\* the ids of the unresolved alerts of a category
Unresolved(alerts, category) ==
    { alerts[i].id : i \in { j \in 1..Len(alerts) :
                               ~alerts[j].resolved /\ alerts[j].category = category } }

\* C17: for each of the metrics cpu, memory and disk there is at any time at
\* most one unresolved alert.
C17_OneAlertPerMetric ==
    \A k \in 1..Len(MetricChecks) :
        Cardinality(Unresolved(monitor.alerts, MetricChecks[k].category)) <= 1

\* the monitor task takes a step: a cycle starts, or the callback it awaits
\* returns or raises
TaskSteps ==
    \/ monitor'.cycles # monitor.cycles
    \/ monitor'.pc # monitor.pc
    \/ monitor'.stage # monitor.stage

AlertIds(alerts) == { alerts[i].id : i \in 1..Len(alerts) }

\* C18: when a cycle is complete and its reading of a metric is below the
\* metric's warn threshold, the list holds no unresolved alert of that
\* metric; and no step of a cycle whose reading of a metric is at or above
\* warn resolves an alert of that metric: every alert of the metric that was
\* unresolved before the step and is still in the list is unresolved after it.
C18_Resolution ==
    [][\A k \in 1..Len(MetricChecks) :
        LET c == MetricChecks[k]
            value == monitor'.reading[c.category]
        IN  /\ (TaskSteps /\ monitor'.pc = "sleep" /\ value < c.warn)
               => Unresolved(monitor'.alerts, c.category) = {}
            /\ (TaskSteps /\ value >= c.warn)
               => \A id \in Unresolved(monitor.alerts, c.category) :
                     \/ id \in Unresolved(monitor'.alerts, c.category)
                     \/ id \notin AlertIds(monitor'.alerts)]_vars

\* the CPU was in the warning band, then critical, then below warn: the
\* last cycle has resolved both alerts
C18_Witness ==
    /\ monitor.pc = "sleep" /\ monitor.reading.cpu < cpu_warn
    /\ Len(monitor.alerts) = 2
    /\ monitor.alerts[1].title = "CPU high" /\ monitor.alerts[1].resolved
    /\ monitor.alerts[2].title = "CPU critically high" /\ monitor.alerts[2].resolved
    /\ monitor.cycles = 3

\* C19: the callback is invoked at most once for an alert: no alert id occurs
\* twice among the invocations; and the auto_healed flag is set before the
\* invocation: the alert whose callback is running, and every alert of the
\* list the callback was invoked for, has the flag.
C19_HealOnce ==
    /\ \A i, j \in 1..Len(monitor.heals) : i # j => monitor.heals[i] # monitor.heals[j]
    /\ monitor.pc = "healing"
       => /\ monitor.healing \in AlertIds(monitor.alerts)
          /\ AlertById(monitor.alerts, monitor.healing).auto_healed
          /\ monitor.heals[Len(monitor.heals)] = monitor.healing
    /\ \A i \in 1..Len(monitor.alerts) :
          monitor.alerts[i].auto_healed
          <=> \E j \in 1..Len(monitor.heals) : monitor.heals[j] = monitor.alerts[i].id

\* the CPU was critical with auto-heal on, fell to the warning band and is
\* critical again: the callback ran once for the alert, which is still open
C19_Witness ==
    /\ monitor.pc = "sleep" /\ monitor.auto_heal
    /\ monitor.reading.cpu >= cpu_crit
    /\ monitor.heals = <<1>>
    /\ Len(monitor.alerts) = 2
    /\ Tracks(monitor.alerts[1], "cpu", "CPU critically high")
    /\ monitor.alerts[1].auto_healed
    /\ Tracks(monitor.alerts[2], "cpu", "CPU high")

\* the callback invoked for the alert `id` has not returned yet
RemediationRunning(id) == monitor.healing = id

\* C20: the monitor's cycle never waits for a remediation run: while the
\* callback invoked for an alert is running, the monitor task is not suspended
\* in the check that invoked it.
C20_FireAndForget ==
    \A id \in AlertIds(monitor.alerts) :
        RemediationRunning(id) => monitor.pc # "healing"

\* the number of times the callback was invoked for the alert `id`
Invocations(heals, id) == Cardinality({ j \in 1..Len(heals) : heals[j] = id })

\* what the threshold check k leaves behind for a reading: an unresolved
\* alert with the title of the band the value is in, none below warn
MetricChecked(alerts, reading, k) ==
    LET c == MetricChecks[k]
        value == reading[c.category]
    IN  IF value >= c.crit THEN Tracking(alerts, c.category, c.crit_title) # {}
        ELSE IF value >= c.warn THEN Tracking(alerts, c.category, c.warn_title) # {}
        ELSE Unresolved(alerts, c.category) = {}

\* what the zombie check leaves behind for a reading
ZombiesChecked(alerts, reading) ==
    IF reading.zombies > ZombieLimit
    THEN Tracking(alerts, "process", ZombieTitle) # {}
    ELSE Tracking(alerts, "process", ZombieTitle) = {}

\* C21: a step in which the remediation callback raises leaves the alert,
\* as long as the list holds it, marked auto_healed with an empty
\* agent_response, and goes on with the
\* cycle: every later threshold check and the zombie check have run up to
\* the check that awaits the next callback, or all of them and the port check
\* when the task sleeps again, from where the next cycle starts; and the
\* callback is invoked once only for an alert, whatever step is taken after
\* its callback ended.
C21_FailureContained ==
    [][/\ CallbackRaises
          => LET id == monitor.healing
                 done == IF monitor'.pc = "sleep" THEN LastStage ELSE monitor'.stage
             IN  /\ id \in AlertIds(monitor'.alerts)
                    => /\ AlertById(monitor'.alerts, id).auto_healed
                       /\ AlertById(monitor'.alerts, id).agent_response = ""
                 /\ monitor'.pc \in {"sleep", "healing"}
                 /\ monitor'.pc = "healing" => monitor'.stage > monitor.stage
                 /\ \A k \in 1..Len(MetricChecks) :
                       (monitor.stage < k /\ k <= done)
                       => MetricChecked(monitor'.alerts, monitor.reading, k)
                 /\ (monitor.stage < LastStage - 1 /\ LastStage - 1 <= done)
                    => ZombiesChecked(monitor'.alerts, monitor.reading)
                 /\ monitor'.pc = "sleep"
                    => /\ monitor'.known_listeners = monitor.reading.ports
                       /\ monitor'.initial_scan_done
                 /\ Invocations(monitor'.heals, id) = 1
       /\ \A i \in 1..Len(monitor.alerts) :
             (monitor.alerts[i].auto_healed /\ monitor.healing # monitor.alerts[i].id)
             => /\ Invocations(monitor'.heals, monitor.alerts[i].id) = 1
                /\ monitor.alerts[i].id \in AlertIds(monitor'.alerts)
                   => AlertById(monitor'.alerts, monitor.alerts[i].id).auto_healed]_vars

\* the callback invoked for the critical CPU alert ended without a response
\* and the same cycle went on to the disk check, which awaits its own callback
C21_Witness ==
    /\ monitor.pc = "healing" /\ monitor.stage = 3
    /\ monitor.heals = <<1, 2>>
    /\ monitor.alerts[1].category = "cpu" /\ monitor.alerts[1].auto_healed
    /\ monitor.alerts[1].agent_response = ""
    /\ monitor.alerts[2].category = "disk" /\ monitor.alerts[2].auto_healed

\* the positions of the alerts for listening ports
PortAlerts(alerts) == { i \in 1..Len(alerts) : alerts[i].category = "network" }

\* the alerts created by the step: those with an id above the old counter
Created(category, title) ==
    { i \in 1..Len(monitor'.alerts) :
        /\ monitor'.alerts[i].id > monitor.alert_counter
        /\ monitor'.alerts[i].category = category
        /\ monitor'.alerts[i].title = title }

\* the step completes a cycle: the port check has run and the task sleeps
CompletesCycle == TaskSteps /\ monitor'.pc = "sleep"

\* C22: the step that completes the first scan leaves the list without any
\* alert for a listening port, whatever ports the scan found; a step that
\* completes a later scan creates, for each port of the scan that was not in
\* the baseline and has no alert open, exactly one alert, of severity info,
\* unresolved.
C22_FirstScanSuppressed ==
    [][CompletesCycle
       => /\ ~monitor.initial_scan_done
             => /\ PortAlerts(monitor'.alerts) = {}
                /\ monitor'.initial_scan_done
                /\ monitor'.known_listeners = monitor'.reading.ports
          /\ monitor.initial_scan_done
             => \A port \in monitor'.reading.ports \ monitor.known_listeners :
                   Tracking(monitor.alerts, "network", PortTitle(port)) = {}
                   => /\ Cardinality(Created("network", PortTitle(port))) = 1
                      /\ \A i \in Created("network", PortTitle(port)) :
                            /\ monitor'.alerts[i].severity = "info"
                            /\ ~monitor'.alerts[i].resolved]_vars

\* the first scan is complete: it found the port listening, took it into the
\* baseline and raised nothing
C22_Witness ==
    /\ monitor.cycles = 1 /\ monitor.pc = "sleep"
    /\ monitor.initial_scan_done /\ monitor.known_listeners = Ports
    /\ Ports # {}
    /\ monitor.alerts = <<>>

\* C23: a step that completes a scan after the first creates, for every port
\* of the scan that was not in the previous scan's set, an alert of severity
\* info in that cycle, and the callback is not invoked for it; every such
\* appearance counts, also that of a port that was open before and closed.
C23_NewListener ==
    [][(CompletesCycle /\ monitor.initial_scan_done)
       => \A port \in monitor'.reading.ports \ monitor.known_listeners :
             /\ Created("network", PortTitle(port)) # {}
             /\ \A i \in Created("network", PortTitle(port)) :
                   /\ monitor'.alerts[i].severity = "info"
                   /\ Invocations(monitor'.heals, monitor'.alerts[i].id) = 0]_vars

\* the monitor after a complete cycle with the reading, started from m
AfterCycle(m, reading) ==
    RunChecks([m EXCEPT !.pc = "checks", !.reading = reading, !.cycles = 0], 1)

\* C24: a cycle in which a metrics query raises creates no alert and
\* resolves none (the list is the same), leaves the known listeners and the
\* initial-scan flag as they were, invokes no callback, and leaves the task
\* asleep so that the next cycle does what it would have done without the
\* failed one.
C24_FailedCycleSkipped ==
    [][(\E reading \in FailReadings, failing \in 1..Len(Queries) :
            QueryRaises(reading, failing))
       => /\ monitor'.alerts = monitor.alerts
          /\ monitor'.alert_counter = monitor.alert_counter
          /\ monitor'.known_listeners = monitor.known_listeners
          /\ monitor'.initial_scan_done = monitor.initial_scan_done
          /\ monitor'.heals = monitor.heals
          /\ monitor'.pc = "sleep" /\ monitor'.enabled
          /\ \A next \in FailReadings :
                AfterCycle(monitor', next) = AfterCycle(monitor, next)]_vars

\* two cycles were started and the task sleeps, and still no scan is
\* complete: both cycles failed
C24_Witness ==
    /\ monitor.cycles = 2 /\ monitor.pc = "sleep"
    /\ ~monitor.initial_scan_done
    /\ monitor.alerts = <<>> /\ monitor.heals = <<>>

\* C25: the list never holds more than max_alerts alerts, and it holds the
\* most recently created ones in creation order: with n alerts created so
\* far, all of them while n is at most max_alerts, and after that exactly the
\* alerts number n - max_alerts + 1 to n; so an alert leaves the list only
\* when the cap applies, and the oldest leaves first.
C25_HistoryCap ==
    LET n == monitor.alert_counter
        len == Len(monitor.alerts)
    IN  /\ len <= MaxAlerts
        /\ len = IF n <= MaxAlerts THEN n ELSE MaxAlerts
        /\ \A i \in 1..len : monitor.alerts[i].id = n - len + i

\* more alerts were created than the list holds: the first is gone, and one
\* of those left is resolved
C25_Witness ==
    /\ monitor.alert_counter = MaxAlerts + 1
    /\ Len(monitor.alerts) = MaxAlerts
    /\ monitor.alerts[1].id = 2
    /\ \E i \in 1..Len(monitor.alerts) : monitor.alerts[i].resolved

\* the step takes the cycle through the zombie check: it starts a cycle or
\* ends a callback awaited by an earlier check, and ends in the zombie
\* check's own await or with the cycle complete
ZombieCheckRuns ==
    /\ TaskSteps
    /\ monitor.pc = "sleep" \/ monitor.stage < LastStage - 1
    /\ monitor'.pc = "sleep" \/ monitor'.stage >= LastStage - 1

\* C26: when the zombie check runs with more than 3 defunct processes
\* counted, the list afterwards holds exactly one unresolved zombie alert, a
\* warning: the one that was open, or a new one when none was; and the
\* callback is invoked for it when auto-heal is on and it was not invoked for
\* that alert before, and not otherwise.  With 3 or fewer counted, the check
\* creates no zombie alert and leaves none unresolved.
C26_ZombieCheck ==
    [][ZombieCheckRuns
       => LET open == Tracking(monitor.alerts, "process", ZombieTitle)
              open2 == Tracking(monitor'.alerts, "process", ZombieTitle)
              made == Created("process", ZombieTitle)
          IN  IF monitor'.reading.zombies > ZombieLimit
              THEN /\ Cardinality(open2) = 1
                   /\ \A i \in open2 :
                         LET a == monitor'.alerts[i]
                             before == { j \in open : monitor.alerts[j].id = a.id }
                             healed == \E j \in before : monitor.alerts[j].auto_healed
                         IN  /\ a.severity = "warning"
                             /\ open = {} => made = {i}
                             /\ open # {} => (made = {} /\ before # {})
                             /\ (monitor.auto_heal /\ ~healed)
                                => /\ monitor'.pc = "healing"
                                   /\ monitor'.stage = LastStage - 1
                                   /\ monitor'.healing = a.id
                                   /\ a.auto_healed
                                   /\ Invocations(monitor'.heals, a.id) = 1
                                   /\ Invocations(monitor.heals, a.id) = 0
                             /\ ~(monitor.auto_heal /\ ~healed)
                                => /\ monitor'.pc = "sleep"
                                   /\ monitor'.heals = monitor.heals
              ELSE /\ made = {}
                   /\ open2 = {}]_vars

\* a cycle counted four defunct processes with auto-heal on and the callback
\* answered; the next cycle counted three and resolved the alert
C26_Witness ==
    /\ monitor.pc = "sleep" /\ monitor.cycles = 2
    /\ monitor.reading.zombies = ZombieLimit
    /\ Len(monitor.alerts) = 1
    /\ monitor.alerts[1].title = ZombieTitle /\ monitor.alerts[1].resolved
    /\ monitor.alerts[1].auto_healed /\ monitor.alerts[1].agent_response = "answer"
    /\ monitor.heals = <<1>>

\* the request turn at position i is the turn of the message msg
TurnOf(turn, msg) ==
    /\ turn.role = msg.role
    /\ Len(turn.parts) = msg.media + (IF msg.text.len > 0 THEN 1 ELSE 0)
    /\ \A j \in 1..Len(turn.parts) :
          /\ turn.parts[j].of = msg.timestamp
          /\ turn.parts[j].kind = IF j <= msg.media THEN "inline_data" ELSE "text"

\* the request sequence for h: the summary exchange first, exactly when there
\* is a summary, then one turn per live message in the order of the messages
SummaryFirst(h, contents) ==
    LET k == IF h.summary.exists THEN 2 ELSE 0
    IN  /\ Len(contents) = k + Len(h.messages)
        /\ h.summary.exists
           => /\ contents[1].role = "user"
              /\ contents[1].parts = << [kind |-> "summary", of |-> h.summary.text] >>
              /\ contents[2].role = "model"
        /\ \A i \in 1..Len(h.messages) : TurnOf(contents[k + i], h.messages[i])

\* the live messages are the last messages appended, in append order
LiveSuffix(h) ==
    \E n \in 0..Len(h.appended) :
        h.messages = SubSeq(h.appended, n + 1, Len(h.appended))

\* C27: after every step the request sequence of the history is the summary
\* exchange, present exactly when a summary exists, followed by the turns of
\* the live messages in append order, and the live messages are a contiguous
\* suffix of all the messages appended so far; and building the request
\* sequence returns that sequence and changes nothing of the history.
C27_SerializationOrder ==
    [][/\ SummaryFirst(history', ToApiContents(history'))
       /\ LiveSuffix(history')
       /\ \A i \in 1..Len(history'.appended) : history'.appended[i].timestamp = i
       /\ BuildContents
          => /\ SummaryFirst(history, history'.contents)
             /\ history'.messages = history.messages
             /\ history'.summary = history.summary
             /\ history'.appended = history.appended
             /\ history'.max_turns = history.max_turns
             /\ history'.summary_threshold = history.summary_threshold]_vars

\* a request built from a history with a summary of two messages and two
\* live messages
C27_Witness ==
    /\ history.summary.exists /\ history.summary.turn_count = 2
    /\ Len(history.messages) = 2
    /\ Len(history.contents) = 4
    /\ history.contents = ToApiContents(history)
    /\ history.contents[3].role = "user" /\ history.contents[4].role = "model"

\* the step appends a message to the history
Appends == Len(history'.appended) = Len(history.appended) + 1

\* the number of live messages the appending step removed
Removed == Len(history.messages) + 1 - Len(history'.messages)

\* C28: when an append compacts the history (it removes live messages), the
\* live turn count afterwards is at most summary_threshold, there is a
\* summary, and its turn_count is the one before (0 without a summary) plus
\* the number of messages removed, which are the oldest live ones.
C28_CompactionPostcondition ==
    [][(Appends /\ Removed > 0)
       => /\ Len(history'.messages) <= history.summary_threshold
          /\ history'.summary.exists
          /\ history'.summary.turn_count = history.summary.turn_count + Removed
          /\ Len(history'.summary.text) = Len(history.summary.text) + Removed
          /\ \A i \in 1..Len(history'.messages) - 1 :
                history'.messages[i] = history.messages[Removed + i]]_vars

\* max_turns 2 and summary_threshold 1: an append has left one live message
\* and every other message appended so far is counted by the summary
C28_Witness ==
    /\ history.max_turns = 2 /\ history.summary_threshold = 1
    /\ Len(history.appended) >= 3
    /\ history.summary.turn_count = Len(history.appended) - 1
    /\ Len(history.messages) = 1

C30_BoundedLive ==
    Len(history.messages) <= history.max_turns

\* the sequence p is a prefix of the sequence q
IsPrefix(p, q) == Len(p) <= Len(q) /\ SubSeq(q, 1, Len(p)) = p

\* the summary turns of a request sequence
SummaryTurns(contents) ==
    { i \in 1..Len(contents) :
        \E j \in 1..Len(contents[i].parts) : contents[i].parts[j].kind = "summary" }

\* C31: a step other than clear() keeps the running summary and only adds
\* to it: a summary that exists still exists, its text before the step is a
\* prefix of its text after the step, and its turn_count does not decrease;
\* and a request never holds more than one summary.
C31_SummaryAppendOnly ==
    [][/\ Cardinality(SummaryTurns(ToApiContents(history'))) <= 1
       /\ ~ClearHistory
          => /\ history.summary.exists => history'.summary.exists
             /\ IsPrefix(history.summary.text, history'.summary.text)
             /\ history'.summary.turn_count >= history.summary.turn_count]_vars

\* max_turns 1 and summary_threshold 1: the second and the third append have
\* each moved one message into the summary, whose text has both lines
C31_Witness ==
    /\ history.max_turns = 1 /\ history.summary_threshold = 1
    /\ Len(history.appended) = 3
    /\ history.summary.exists /\ history.summary.turn_count = 2
    /\ Len(history.summary.text) = 2
    /\ history.summary.text[1].of = 1 /\ history.summary.text[2].of = 2

\* C37: in every state the turn_count of the summary (0 without a summary)
\* plus the number of live messages is the number of messages appended since
\* the history was made or last cleared.
C37_TurnConservation ==
    history.summary.turn_count + Len(history.messages)
        = Len(history.appended) - history.cleared_at

\* max_turns 1 and summary_threshold 1: a message, clear(), then two
\* messages, the first of which is in the summary
C37_Witness ==
    /\ history.max_turns = 1 /\ history.summary_threshold = 1
    /\ history.cleared_at = 1 /\ Len(history.appended) = 3
    /\ history.summary.turn_count = 1 /\ Len(history.messages) = 1

\* the number of the last register call made with the name, 0 when none
LastRegistration(regs, name) ==
    IF \E i \in 1..Len(regs) : regs[i] = name
    THEN CHOOSE i \in 1..Len(regs) :
            regs[i] = name /\ \A j \in 1..Len(regs) : regs[j] = name => j <= i
    ELSE 0

\* C32: after any sequence of register calls the registry holds one
\* definition per distinct name registered (count is the number of distinct
\* names) and it is the one of the last register call with that name; every
\* register call goes through, duplicate or not; and execute dispatches to
\* the definition of the last registration of the name, or to none for a
\* name never registered.
C32_LastRegistrationWins ==
    [][/\ Count(tools') = Cardinality({ tools'.regs[i] : i \in 1..Len(tools'.regs) })
       /\ \A name \in RegNames : tools'.defs[name] = LastRegistration(tools'.regs, name)
       /\ \A name \in RegNames :
             Len(tools.regs) < MaxRegs
             => RegisterDef(tools, name).regs = Append(tools.regs, name)
       /\ \A name \in CallNames, outcome \in HandlerOutcomes :
             ExecuteTool(name, outcome)
             => /\ tools'.dispatched.def = LastRegistration(tools.regs, name)
                /\ (tools'.dispatched.def # 0 /\ ~outcome.raised)
                   => tools'.result.body = <<outcome.str.body, tools'.dispatched.def>>
                /\ tools'.dispatched.def = 0
                   => tools'.result = ErrorPayload(UnknownToolMsg)]_vars

\* t1 was registered twice and t2 once in between; execute("t1") has run the
\* handler of the third registration
C32_Witness ==
    /\ tools.regs = <<"t1", "t2", "t1">>
    /\ Count(tools) = 2
    /\ tools.dispatched = [name |-> "t1", def |-> 3]
    /\ tools.result.fmt = "json" /\ tools.result.key = "data"

\* a result string as the loop passes it on: at most the cap long and as the
\* tool gave it, or cut to the cap and followed by the marker
Capped(s) ==
    IF s.cut THEN s.len = TruncLimit + MarkerLen ELSE s.len <= TruncLimit

\* the strings execute can return to the loop
ExecuteResults == { Execute(name, outcome) : name \in ToolNames, outcome \in HandlerOutcomes }

\* C33: the result of every tool_result event, and every raw result recorded
\* in a function-response turn or waiting to be recorded, is at most 8000
\* characters long and uncut, or 8000 characters and the marker; it is what
\* the cut makes of a string execute returned.  The cut leaves a string of at
\* most 8000 characters as it is (also one of exactly 8000) and makes of a
\* longer one its first 8000 characters and the marker.
C33_ResultTruncation ==
    /\ \A r \in Runs : \A i \in 1..Len(run[r].events) :
          run[r].events[i].type = "tool_result"
          => /\ Capped(run[r].events[i].result)
             /\ \E s \in ExecuteResults :
                   /\ run[r].events[i].result.body = s.body
                   /\ run[r].events[i].result.cut = (s.len > TruncLimit)
                   /\ ~run[r].events[i].result.cut => run[r].events[i].result = s
    /\ \A r \in Runs : \A i \in 1..Len(run[r].function_responses) :
          Capped(run[r].function_responses[i].response.raw)
    /\ \A obj \in 1..Len(messages) : \A i \in 1..Len(messages[obj]) :
          messages[obj][i].kind = "function_response"
          => \A j \in 1..Len(messages[obj][i].results) :
                Capped(messages[obj][i].results[j].response.raw)
    /\ \A s \in ExecuteResults \cup ExceptionMsgs :
          /\ s.len <= TruncLimit => Truncate(s) = s
          /\ s.len > TruncLimit
             => Truncate(s) = [s EXCEPT !.len = TruncLimit + MarkerLen, !.cut = TRUE]

\* a run has emitted a cut result and an uncut one, and the cut one is
\* recorded in the session as raw output
C33_Witness ==
    \E r \in Runs :
        /\ \E i, j \in 1..Len(run[r].events) :
              /\ run[r].events[i].type = "tool_result" /\ run[r].events[i].result.cut
              /\ run[r].events[i].result.len = TruncLimit + MarkerLen
              /\ run[r].events[j].type = "tool_result" /\ ~run[r].events[j].result.cut
        /\ run[r].obj \in 1..Len(messages)
        /\ \E i \in 1..Len(messages[run[r].obj]) :
              /\ messages[run[r].obj][i].kind = "function_response"
              /\ \E j \in 1..Len(messages[run[r].obj][i].results) :
                    messages[run[r].obj][i].results[j].response.raw.cut

\* C34: for every executed tool call, whatever string the handler returns,
\* the run goes on and records exactly one result entry, under the tool's
\* name, whose payload is a structured object: the object the string parses
\* to, or the string wrapped as {"output": raw} when it does not parse.
C34_GracefulResults ==
    [][\A r \in Runs :
        (run[r].pc = "tool" /\ Steps(r))
        => LET me == run[r]
               after == run'[r]
               ev == after.events[Len(me.events) + 1]
               msgs == messages'[me.obj]
               entries == IF after.pc = "loop"
                          THEN msgs[Len(msgs)].results
                          ELSE after.function_responses
               entry == entries[Len(entries)]
           IN  /\ after.outcome = "none"
               /\ after.pc \in {"checkB", "loop"}
               /\ Len(entries) = Len(me.function_responses) + 1
               /\ entry.name = me.parts[me.idx].name
               /\ entry.response.key # ""
               /\ JsonParses(ev.result)
                  => (entry.response.key = ev.result.key /\ entry.response.val = ev.result.body)
               /\ ~JsonParses(ev.result)
                  => entry.response = [key |-> "output", val |-> "", raw |-> ev.result]]_vars

\* C35: a cancel request stays in the cancellation set until a checkpoint of
\* a run on its session consumes it or remove_session discards it: a run that
\* ends with a final answer, the fallback message or an error leaves it there,
\* and so does the start of a run; the run that then meets it at its first
\* pass of the loop stops at check A with zero model calls.
C35_StaleCancel ==
    [][\A sid \in cancelled :
        /\ sid \notin cancelled'
           => \/ (run' = run /\ sessions'[sid] = 0 /\ messages' = messages)
              \/ \E r \in Runs :
                    /\ run[r].sid = sid /\ run[r].pc \in {"loop", "checkB"}
                    /\ run'[r].outcome \in {"cancelA", "cancelB"}
        /\ \A r \in Runs :
              /\ (run[r].outcome = "none" /\ run'[r].outcome \in {"final", "fallback", "error"})
                 => sid \in cancelled'
              /\ (run[r].pc = "idle" /\ run'[r].pc = "loop")
                 => sid \in cancelled'
              /\ (run[r].pc = "loop" /\ run[r].sid = sid /\ run[r].iterations = 0 /\ Steps(r))
                 => /\ run'[r].pc = "done" /\ run'[r].outcome = "cancelA"
                    /\ run'[r].modelCalls = 0
                    /\ sid \notin cancelled']_vars

\* a run ended with a final answer, the fallback message or an error, and
\* the other run on the same session, which did not overlap with it, was
\* stopped at check A before its first model call
C35_Witness ==
    \E r \in Runs, q \in Runs :
        /\ r # q /\ run[r].sid = run[q].sid
        /\ run[r].pc = "done" /\ run[r].outcome \in {"final", "fallback", "error"}
        /\ run[r].modelCalls > 0
        /\ ~run[r].overlapped /\ ~run[q].overlapped
        /\ run[q].pc = "done" /\ run[q].outcome = "cancelA" /\ run[q].modelCalls = 0

\* C36: a run that no other run overlaps holds at most 2*max_history_turns
\* turns right after the trim at its start and at most 2*max_history_turns +
\* 2*max_agent_iterations turns at every later point; the trim at the start
\* keeps the most recent turns, the new goal included, and drops the oldest.
C36_BoundedSession ==
    /\ [](\A r \in Runs :
            run[r].pc # "idle"
            => /\ (run[r].pc = "loop" /\ run[r].iterations = 0)
                  => Len(messages[run[r].obj]) <= 2 * MaxHistoryTurns
               /\ Len(messages[run[r].obj]) <= 2 * MaxHistoryTurns + 2 * max_iter)
    /\ [][\A r \in Runs :
            (run[r].pc = "idle" /\ run'[r].pc = "loop")
            => LET sid == run'[r].sid
                   old == IF sessions[sid] = 0 THEN <<>> ELSE messages[sessions[sid]]
                   full == Append(old, UserTurn(r))
                   new == messages'[run'[r].obj]
                   kept == IF Len(full) > 2 * MaxHistoryTurns
                           THEN 2 * MaxHistoryTurns ELSE Len(full)
               IN  /\ Len(new) = kept
                   /\ new = SubSeq(full, Len(full) - kept + 1, Len(full))]_vars

\* a run that started on a full session, so that the trim dropped the oldest
\* turns, spent its whole budget on tool cycles: the session holds
\* 2*max_history_turns + 2*max_agent_iterations turns
C36_Witness ==
    \E r \in Runs :
        /\ run[r].pc = "done" /\ run[r].outcome = "fallback"
        /\ ~run[r].overlapped
        /\ Len(messages[run[r].obj]) = 2 * MaxHistoryTurns + 2 * max_iter
        /\ messages[run[r].obj][1].by = "auto"

\* the session object of run r is no longer the one registered under its id
Detached(r) == run[r].pc # "idle" /\ sessions[run[r].sid] # run[r].obj

\* C38: remove_session discards the session's cancel request and leaves every
\* run and every session object as it is; a run whose session was removed
\* goes on, adding its turns to its own detached object and yielding events,
\* and never registers that object again; the next get_session for the id
\* makes a new session that holds only the new goal.
C38_RemoveWhileRunning ==
    [][/\ \A sid \in SessionIds :
            (run' = run /\ sessions[sid] # 0 /\ sessions'[sid] = 0)
            => /\ sid \notin cancelled'
               /\ messages' = messages
       /\ \A r \in Runs :
            (Detached(r) /\ Steps(r))
            => /\ sessions' = sessions
               /\ IsPrefix(messages[run[r].obj], messages'[run[r].obj])
               /\ IsPrefix(run[r].events, run'[r].events)
               /\ \A o \in DOMAIN messages \ {run[r].obj} : messages'[o] = messages[o]
               /\ run[r].pc = "tool" => Len(run'[r].events) > Len(run[r].events)
       /\ \A q \in Runs :
            (run[q].pc = "idle" /\ run'[q].pc = "loop" /\ sessions[run'[q].sid] = 0)
            => /\ run'[q].obj \notin DOMAIN messages
               /\ sessions'[run'[q].sid] = run'[q].obj
               /\ messages'[run'[q].obj] = <<UserTurn(q)>>
               /\ \A r \in Runs \ {q} : run[r].pc # "idle" => run[r].obj # run'[q].obj]_vars

\* a run is waiting for its tool handler while its session has been removed
\* and the other run has made a new session under the same id, which holds
\* none of the first run's turns
C38_Witness ==
    \E r \in Runs, q \in Runs :
        /\ r # q /\ run[r].pc = "tool" /\ Detached(r)
        /\ run[q].pc # "idle" /\ run[q].sid = run[r].sid
        /\ sessions[run[r].sid] = run[q].obj
        /\ \A i \in 1..Len(messages[run[q].obj]) : messages[run[q].obj][i].by = q
        /\ Len(messages[run[r].obj]) >= 2

\* C39: an unresolved alert is reported with healing_in_progress = true only
\* while the remediation callback invoked for it is running; once the
\* callback has returned, with whatever result, or has raised, the alert is
\* not reported as healing in progress.
C39_HealingReported ==
    LET active == GetActiveAlerts(monitor.alerts) IN
    \A i \in 1..Len(active) :
        active[i].healing_in_progress
        => (monitor.pc = "healing" /\ RemediationRunning(active[i].id))

\* the alerts of the critical CPU condition the callback was invoked for
CpuHealed(alerts) ==
    { i \in 1..Len(alerts) :
        /\ alerts[i].category = MetricChecks[1].category
        /\ alerts[i].title = MetricChecks[1].crit_title
        /\ alerts[i].auto_healed }

\* C40: while the CPU stays at or above its critical threshold cycle after
\* cycle and auto-heal stays on, the remediation callback is invoked at most
\* once for the condition, whatever alerts are dismissed between the cycles.
C40_NoStorm ==
    Cardinality(CpuHealed(monitor.alerts)) <= 1

====
